---- MODULE Spec2Model ----
(***************************************************************************)
(* Diary entry pipeline (create / update with tags, images and sentiment   *)
(* enrichment), sentiment aggregation and notification targeting of the    *)
(* diary backend, modelled from src/app/diary, src/app/tag,                *)
(* src/app/notification and src/app/user.                                  *)
(***************************************************************************)
EXTENDS Integers, Sequences, FiniteSets, TLC

\* ------------------------------------------------------------------------
\* Bounds of the model
\* ------------------------------------------------------------------------
\* longest tag name (in characters) of a text-level request
MaxNameLen == 4
\* most characters in all the names of one tag list of a text-level request
MaxChars == 4
\* longest image URL (in characters) of a text-level request
MaxUrlLen == 2
\* longest tag list of a text-level request
MaxTags == 2
\* longest image-URL list of a text-level request
MaxUrls == 2
\* number of create requests
MaxDiaries == 1
\* number of entries read by one aggregation
MaxRows == 2
\* number of users of a targeting run
MaxUsers == 1
\* number of EmotionStats rows of one user
MaxStatRows == 1
\* number of targeting runs, and of seed runs, of one day
MaxRuns == 2
\* longest list of delivery targets of one batch
MaxTargets == 3
\* number of entries in the tables of a listing
MaxListed == 3
\* highest page number of a listing
MaxPage == 2
\* highest page_size of a listing
MaxPageSize == 2

\* ------------------------------------------------------------------------
\* Program constants
\* ------------------------------------------------------------------------
\* DiaryService.create: len(content_txt) < 10 is rejected
MinContentLen == 10
\* DiaryEmotionRequest.diary_content: min_length=10
MinRequestLen == 10
\* check_weekly_negative_emotions: stats.frequency >= 5
Threshold == 5

\* ------------------------------------------------------------------------
\* Text: a str is a sequence of one-character strings
\* ------------------------------------------------------------------------
TagChars == {"a", " ", ","}
UrlChars == {"u", " "}

\* all strings over chars of length <= n
StrsOfLen(chars, n) == [1..n -> chars]

StrsUpTo(chars, n) == UNION {StrsOfLen(chars, k) : k \in 0..n}

\* all lists over elems of length <= n
ListsOfLen(elems, n) == [1..n -> elems]

ListsUpTo(elems, n) == UNION {ListsOfLen(elems, k) : k \in 0..n}

\* str.strip(): whitespace removed at both ends
RECURSIVE LStrip(_)
LStrip(s) == IF s # <<>> /\ Head(s) = " " THEN LStrip(Tail(s)) ELSE s

RECURSIVE RStrip(_)
RStrip(s) ==
  IF s # <<>> /\ s[Len(s)] = " " THEN RStrip(SubSeq(s, 1, Len(s) - 1)) ELSE s

Strip(s) == RStrip(LStrip(s))

\* str.split(","): the pieces between commas, empty pieces included
RECURSIVE Split(_)
Split(s) ==
  IF \E i \in 1..Len(s) : s[i] = ","
  THEN LET i == CHOOSE k \in 1..Len(s) :
                  s[k] = "," /\ \A j \in 1..(k - 1) : s[j] # ","
       IN <<SubSeq(s, 1, i - 1)>> \o Split(SubSeq(s, i + 1, Len(s)))
  ELSE <<s>>

\* [f(x) for x in l]
RECURSIVE MapStrip(_)
MapStrip(l) == IF l = <<>> THEN <<>> ELSE <<Strip(Head(l))>> \o MapStrip(Tail(l))

NonEmpty(s) == s # <<>>

\* order-preserving removal of repeated elements (seen-set loop)
RECURSIVE DedupeFrom(_, _)
DedupeFrom(l, seen) ==
  IF l = <<>> THEN <<>>
  ELSE IF Head(l) \in seen THEN DedupeFrom(Tail(l), seen)
       ELSE <<Head(l)>> \o DedupeFrom(Tail(l), seen \cup {Head(l)})

Dedupe(l) == DedupeFrom(l, {})

Range(l) == {l[i] : i \in 1..Len(l)}

\* code-point order of the characters in use
CharRank(c) ==
  CASE c = " " -> 32
    [] c = "," -> 44
    [] c = "a" -> 97
    [] c = "u" -> 117
    [] OTHER -> 0

\* s < t in the lexicographic (ORDER BY name) order
RECURSIVE NameLess(_, _)
NameLess(s, t) ==
  IF t = <<>> THEN FALSE
  ELSE IF s = <<>> THEN TRUE
  ELSE IF Head(s) # Head(t) THEN CharRank(Head(s)) < CharRank(Head(t))
  ELSE NameLess(Tail(s), Tail(t))

\* the names of a set in ascending order
RECURSIVE SortNames(_)
SortNames(S) ==
  IF S = {} THEN <<>>
  ELSE LET m == CHOOSE x \in S : \A y \in S \ {x} : NameLess(x, y)
       IN <<m>> \o SortNames(S \ {m})

\* ------------------------------------------------------------------------
\* Python values and JSON (json.dumps / json.loads) at token level
\* ------------------------------------------------------------------------
\* MainEmotionType: POSITIVE = "긍정", NEGATIVE = "부정", NEUTRAL = "중립"
POSITIVE == "positive"
NEGATIVE == "negative"
NEUTRAL == "neutral"
MainEmotionType == {POSITIVE, NEGATIVE, NEUTRAL}

\* the words that occur inside JSON string literals
Words == MainEmotionType \cup {"main_emotion", "emotion_analysis", "other", ""}

\* the JSON string literal of a word (the word in double quotes)
Quoted(w) ==
  CASE w = POSITIVE -> "'positive'"
    [] w = NEGATIVE -> "'negative'"
    [] w = NEUTRAL -> "'neutral'"
    [] w = "main_emotion" -> "'main_emotion'"
    [] w = "emotion_analysis" -> "'emotion_analysis'"
    [] w = "other" -> "'other'"
    [] OTHER -> "''"

IsQuoted(tok) == \E w \in Words : Quoted(w) = tok
Unquote(tok) == CHOOSE w \in Words : Quoted(w) = tok

\* Python values: None, a number, a str (its text as tokens), a list, a dict
PyNone == [kind |-> "none"]
PyNum == [kind |-> "num"]
PyStr(text) == [kind |-> "str", text |-> text]
PyList(items) == [kind |-> "list", items |-> items]
PyDict(f) == [kind |-> "dict", f |-> f]
\* the str holding one word, e.g. the label "부정"; the empty str for ""
PyWord(w) == PyStr(IF w = "" THEN <<>> ELSE <<w>>)

IsDict(v) == v.kind = "dict"
HasKey(v, k) == k \in DOMAIN v.f
\* dict.get(k): None when the key is absent
DictGet(v, k) == IF HasKey(v, k) THEN v.f[k] ELSE PyNone

KeyOrder == <<"main_emotion", "emotion_analysis", "other">>

\* json.dumps(v)
RECURSIVE Dumps(_)
RECURSIVE DumpMembers(_, _)
RECURSIVE DumpItems(_)
Dumps(v) ==
  CASE v.kind = "none" -> <<"null">>
    [] v.kind = "num" -> <<"1">>
    [] v.kind = "str" -> <<Quoted(IF v.text = <<>> THEN "" ELSE v.text[1])>>
    [] v.kind = "list" -> <<"[">> \o DumpItems(v.items) \o <<"]">>
    [] v.kind = "dict" ->
         <<"{">> \o DumpMembers(v, SelectSeq(KeyOrder, LAMBDA k : HasKey(v, k)))
                \o <<"}">>
DumpMembers(v, keys) ==
  IF keys = <<>> THEN <<>>
  ELSE <<Quoted(Head(keys)), ":">> \o Dumps(v.f[Head(keys)])
       \o (IF Tail(keys) = <<>> THEN <<>> ELSE <<",">> \o DumpMembers(v, Tail(keys)))
DumpItems(items) ==
  IF items = <<>> THEN <<>>
  ELSE Dumps(Head(items))
       \o (IF Tail(items) = <<>> THEN <<>> ELSE <<",">> \o DumpItems(Tail(items)))

\* json.loads(text): a recursive-descent parse; ok = FALSE is JSONDecodeError
ParseFail == [ok |-> FALSE, v |-> PyNone, rest |-> <<>>]
ParseOk(v, rest) == [ok |-> TRUE, v |-> v, rest |-> rest]

RECURSIVE ParseValue(_)
RECURSIVE ParseMembers(_, _)
RECURSIVE ParseItems(_, _)
ParseValue(ts) ==
  IF ts = <<>> THEN ParseFail
  ELSE LET t == Head(ts) r == Tail(ts) IN
    CASE t = "null" -> ParseOk(PyNone, r)
      [] t = "1" -> ParseOk(PyNum, r)
      [] IsQuoted(t) -> ParseOk(PyWord(Unquote(t)), r)
      [] t = "[" ->
           IF r # <<>> /\ Head(r) = "]" THEN ParseOk(PyList(<<>>), Tail(r))
           ELSE ParseItems(r, <<>>)
      [] t = "{" ->
           IF r # <<>> /\ Head(r) = "}" THEN ParseOk(PyDict(<<>>), Tail(r))
           ELSE ParseMembers(r, <<>>)
      [] OTHER -> ParseFail
\* members after "{" or ",": 'key' : value, then "," or "}"
ParseMembers(ts, f) ==
  IF Len(ts) < 2 \/ ~IsQuoted(ts[1]) \/ ts[2] # ":" THEN ParseFail
  ELSE LET k == Unquote(ts[1])
           pv == ParseValue(SubSeq(ts, 3, Len(ts)))
       IN IF ~pv.ok \/ pv.rest = <<>> THEN ParseFail
          ELSE LET g == [x \in DOMAIN f \cup {k} |-> IF x = k THEN pv.v ELSE f[x]]
               IN IF Head(pv.rest) = "}" THEN ParseOk(PyDict(g), Tail(pv.rest))
                  ELSE IF Head(pv.rest) = "," THEN ParseMembers(Tail(pv.rest), g)
                  ELSE ParseFail
\* items after "[" or ",": value, then "," or "]"
ParseItems(ts, items) ==
  LET pv == ParseValue(ts)
  IN IF ~pv.ok \/ pv.rest = <<>> THEN ParseFail
     ELSE IF Head(pv.rest) = "]"
          THEN ParseOk(PyList(Append(items, pv.v)), Tail(pv.rest))
     ELSE IF Head(pv.rest) = ","
          THEN ParseItems(Tail(pv.rest), Append(items, pv.v))
     ELSE ParseFail

Loads(text) ==
  LET pv == ParseValue(text)
  IN IF pv.ok /\ pv.rest = <<>> THEN [ok |-> TRUE, v |-> pv.v]
     ELSE [ok |-> FALSE, v |-> PyNone]

\* ------------------------------------------------------------------------
\* State
\* ------------------------------------------------------------------------
VARIABLES
  db,         \* committed tables: diaries, tags, diary_tag, images
  tx,         \* working copy of the open create transaction (NoTx when none)
  req,        \* the request in flight, or the last finished one with its response
  aiEnabled,  \* core.config.AI_ENABLED
  agg,        \* sentiment aggregation: the rows read and the value returned
  nt,         \* notification tables and the targeting run
  calls       \* concurrent calls: their transactions and the row versions

vars == <<db, tx, req, aiEnabled, agg, nt, calls>>

\* ------------------------------------------------------------------------
\* Tables of the diary store
\* ------------------------------------------------------------------------
\* diaries: id -> row; tagRows: Tag rows in id order (row i holds name i);
\* diaryTags: id -> set of Tag ids (diary_tag rows); images: id -> Image rows
\* in insertion order; seq: the last id handed out
EmptyDb ==
  [diaries |-> <<>>, tagRows |-> <<>>, diaryTags |-> <<>>, images |-> <<>>,
   seq |-> 0]

\* the create transaction: open or not, its working tables while it is
\* open, and the number of create requests received so far
NoTx == [open |-> FALSE, t |-> EmptyDb, begun |-> 0]
Closed(x) == [x EXCEPT !.open = FALSE, !.t = EmptyDb]

Put(f, k, v) == [x \in DOMAIN f \cup {k} |-> IF x = k THEN v ELSE f[x]]
Drop(f, k) == [x \in DOMAIN f \ {k} |-> f[x]]

DiaryIds(t) == DOMAIN t.diaries

\* ------------------------------------------------------------------------
\* repository.replace_tags
\* ------------------------------------------------------------------------
\* a faulty variant of Parts: the name is kept whole, commas included
PartsWhole(s) == SelectSeq(<<Strip(s)>>, NonEmpty)

\* [p.strip() for p in s.split(",") if p.strip()]
Parts(s) == SelectSeq(MapStrip(Split(s)), NonEmpty)

\* vals after the loop over names
RECURSIVE Vals(_)
Vals(names) == IF names = <<>> THEN <<>> ELSE Parts(Head(names)) \o Vals(Tail(names))

\* cleaned is assigned inside the loop over names: with no name it stays unbound
CleanTags(names) ==
  IF names = <<>> THEN [bound |-> FALSE, cleaned |-> <<>>]
  ELSE [bound |-> TRUE, cleaned |-> Dedupe(Vals(names))]

\* a faulty variant of ClearTags: the links stay
ClearTagsNot(t, d) == t

\* diary.tags.clear()
ClearTags(t, d) == [t EXCEPT !.diaryTags[d] = {}]

\* Tag.get_or_create(name=name) followed by diary.tags.add(tag), per name
RECURSIVE AddTags(_, _, _)
AddTags(t, d, cleaned) ==
  IF cleaned = <<>> THEN t
  ELSE LET name == Head(cleaned)
           rows == IF name \in Range(t.tagRows) THEN t.tagRows
                   ELSE Append(t.tagRows, name)
           id == CHOOSE i \in 1..Len(rows) : rows[i] = name
       IN AddTags([t EXCEPT !.tagRows = rows, !.diaryTags[d] = @ \cup {id}],
                  d, Tail(cleaned))

\* the statements of replace_tags on one connection; ok = FALSE when the
\* loop over cleaned raises UnboundLocalError (after the clear)
ReplaceTagsOn(t, d, names) ==
  LET c == CleanTags(names)
      cleared == ClearTags(t, d)
  IN IF c.bound THEN [ok |-> TRUE, db |-> AddTags(cleared, d, c.cleaned)]
     ELSE [ok |-> FALSE, db |-> cleared]

\* replace_tags(diary, names) with using_db=None: its own transaction, rolled
\* back when a statement raises
replace_tags(t, d, names) ==
  LET r == ReplaceTagsOn(t, d, names)
  IN IF r.ok THEN r ELSE [ok |-> FALSE, db |-> t]

\* ------------------------------------------------------------------------
\* repository.replace_images
\* ------------------------------------------------------------------------
RECURSIVE NormFrom(_, _)
NormFrom(urls, seen) ==
  IF urls = <<>> THEN <<>>
  ELSE LET s == Strip(Head(urls))
       IN IF s = <<>> \/ s \in seen THEN NormFrom(Tail(urls), seen)
          ELSE <<s>> \o NormFrom(Tail(urls), seen \cup {s})

NormUrls(urls) == NormFrom(urls, {})

\* Image(diary_id, url=u, order=i + 1) for i, u in enumerate(norm)
ImageRows(norm) == [i \in 1..Len(norm) |-> [url |-> norm[i], order |-> i]]

\* a faulty variant of DeleteImages: the rows stay
DeleteImagesNot(t, d) == t

\* Image.filter(diary_id=diary.id).delete()
DeleteImages(t, d) == [t EXCEPT !.images[d] = <<>>]

\* the nested in_transaction() joins the caller's transaction when there is one
replace_images(t, d, urls) ==
  LET norm == NormUrls(urls)
      t1 == DeleteImages(t, d)
  IN IF norm # <<>> THEN [t1 EXCEPT !.images[d] = @ \o ImageRows(norm)] ELSE t1

\* ------------------------------------------------------------------------
\* Reads
\* ------------------------------------------------------------------------
\* prefetch_related("tags"): Tag.Meta.ordering = ["name"]
ReadTags(t, d) == SortNames({t.tagRows[i] : i \in t.diaryTags[d]})

\* prefetch_related("images"): the rows as stored
ReadImages(t, d) == t.images[d]

\* repository.get_by_id: the row with its tags and images prefetched
get_by_id(t, d) ==
  [id |-> d,
   title |-> t.diaries[d].title,
   content |-> t.diaries[d].content,
   emotion_analysis_report |-> t.diaries[d].emotion_analysis_report,
   tags |-> ReadTags(t, d),
   images |-> ReadImages(t, d)]

\* to_diary_response(diary)
to_diary_response(diary) ==
  [id |-> diary.id,
   title |-> diary.title,
   content |-> diary.content,
   emotion_analysis_report |-> diary.emotion_analysis_report,
   tags |-> diary.tags,
   image_urls |-> diary.images]

\* the columns Diary.save() writes from the instance
RowOf(diary) ==
  [title |-> diary.title, content |-> diary.content,
   emotion_analysis_report |-> diary.emotion_analysis_report]

\* ------------------------------------------------------------------------
\* Requests
\* ------------------------------------------------------------------------
NoResp == [id |-> 0]
NoResult == [got |-> FALSE]
NoObj == [id |-> 0]
NoPayload == [title |-> "none"]

Request(op, p, ai, d) ==
  [op |-> op, pc |-> "idle", payload |-> p, ai |-> ai, id |-> d, obj |-> NoObj,
   ai_result |-> NoResult, enrich |-> "none", before |-> db,
   status |-> "running", resp |-> NoResp]

Idle == [op |-> "none", pc |-> "idle", payload |-> NoPayload, ai |-> FALSE,
         id |-> 0, obj |-> NoObj, ai_result |-> NoResult, enrich |-> "none",
         before |-> EmptyDb, status |-> "none", resp |-> NoResp]

Free == req.pc \in {"idle", "done"}

\* an optional request field: omitted (None) or given
Omitted == [given |-> FALSE]
Given(v) == [given |-> TRUE, v |-> v]

\* a content string by its length and the length of content.strip()
Text(raw, txt) == [raw |-> raw, txt |-> txt]

\* Python truthiness of a value
Truthy(v) ==
  CASE v.kind = "none" -> FALSE
    [] v.kind = "dict" -> DOMAIN v.f # {}
    [] v.kind = "list" -> v.items # <<>>
    [] v.kind = "str" -> v.text # <<>>
    [] OTHER -> TRUE

\* the enrichment result: none yet, or a DiaryEmotionResponse
Result(label) == [got |-> TRUE, main_emotion |-> label]

\* to_dict(ai_result): model_dump(mode="json") of the DiaryEmotionResponse
to_dict(r) ==
  IF ~r.got THEN PyNone
  ELSE PyDict([k \in {"main_emotion", "other", "emotion_analysis"} |->
                 CASE k = "main_emotion" -> PyWord(r.main_emotion)
                   [] k = "other" -> PyNum
                   [] OTHER -> PyDict(<<>>)])

\* _dumps_ea(ea), then JSONField.to_python_value of the JSON text it returns
\* (Diary(**kwargs) decodes a str given for a JSON field)
StoredReport(ea) == IF ea.kind = "none" THEN PyNone ELSE Loads(Dumps(ea)).v

\* Diary.save(): the guard admits None or a dict only
SaveGuard(obj) == obj.emotion_analysis_report.kind \in {"none", "dict"}

\* a finished request
Finish(r, status, resp) == [r EXCEPT !.pc = "done", !.status = status, !.resp = resp]

\* ------------------------------------------------------------------------
\* DiaryService.create
\* ------------------------------------------------------------------------
\* _resolve_ai(): None when AI is disabled or the service cannot be built
ResolveAi == IF aiEnabled THEN BOOLEAN ELSE {FALSE}

\* a create request with one of the payloads arrives:
\* ai = _resolve_ai(); async with in_transaction() as conn
CreateBegin(payloads) ==
  /\ Free
  /\ tx.begun < MaxDiaries
  /\ \E p \in payloads, ai \in ResolveAi :
       req' = [Request("create", p, ai, 0) EXCEPT !.pc = "tx_create"]
  /\ tx' = [open |-> TRUE, t |-> db, begun |-> tx.begun + 1]
  /\ UNCHANGED <<db, aiEnabled, calls, agg, nt>>

\* repository.create(payload, using_db=conn)
repository_create(t, p) ==
  LET id == t.seq + 1
      row == [title |-> p.title, content |-> p.content,
              emotion_analysis_report |-> StoredReport(p.emotion_analysis_report)]
  IN [t EXCEPT !.diaries = Put(@, id, row), !.diaryTags = Put(@, id, {}),
               !.images = Put(@, id, <<>>), !.seq = id]

\* the Diary instance create returns: fetch_related right after the insert
\* finds no tag and no image
Created(t, d) == [get_by_id(t, d) EXCEPT !.tags = <<>>, !.images = <<>>]

\* a faulty variant of Abort: the statements already run stay in the tables
AbortKeeping(status) ==
  /\ db' = tx.t
  /\ tx' = Closed(tx)
  /\ req' = Finish(req, status, NoResp)
  /\ UNCHANGED <<aiEnabled, calls, agg, nt>>

\* the transaction is rolled back and the exception leaves create: status
\* "error" for an exception of the code, "db_error" for one of the database
Abort(status) ==
  /\ tx' = Closed(tx)
  /\ req' = Finish(req, status, NoResp)
  /\ UNCHANGED <<db, aiEnabled, calls, agg, nt>>

\* _dumps_ea(ea) on a value that is neither None nor a dict: ea.model_dump
\* raises AttributeError for a str, a list or a number
NoModelDump(ea) == ea.kind \notin {"none", "dict"}

\* a faulty variant of TxCreate: whatever json.dumps makes of the payload is
\* inserted, with no test of the payload and no guard in save
TxCreateUnguarded ==
  /\ req.op = "create" /\ req.pc = "tx_create"
  /\ tx' = [tx EXCEPT !.t = repository_create(tx.t, req.payload)]
  /\ req' = [req EXCEPT !.pc = "tx_tags", !.id = tx.t.seq + 1,
                        !.obj = Created(tx'.t, tx.t.seq + 1)]
  /\ UNCHANGED <<db, aiEnabled, calls, agg, nt>>

\* diary = await Diary.create(..., emotion_analysis_report=_dumps_ea(...)):
\* _dumps_ea raises, or the guard of Diary.save raises, or the row is inserted
TxCreate ==
  /\ req.op = "create" /\ req.pc = "tx_create"
  /\ IF \/ NoModelDump(req.payload.emotion_analysis_report)
        \/ ~SaveGuard([emotion_analysis_report |->
                         StoredReport(req.payload.emotion_analysis_report)])
     THEN Abort("error")
     ELSE /\ tx' = [tx EXCEPT !.t = repository_create(tx.t, req.payload)]
          /\ req' = [req EXCEPT !.pc = "tx_tags", !.id = tx.t.seq + 1,
                                !.obj = Created(tx'.t, tx.t.seq + 1)]
          /\ UNCHANGED <<db, aiEnabled, calls, agg, nt>>

\* if payload.tags: replace_tags(diary, payload.tags, using_db=conn)
TxTags ==
  /\ req.op = "create" /\ req.pc = "tx_tags"
  /\ IF req.payload.tags # <<>>
     THEN LET r == ReplaceTagsOn(tx.t, req.id, req.payload.tags)
          IN IF r.ok
             THEN /\ tx' = [tx EXCEPT !.t = r.db]
                  /\ req' = [req EXCEPT !.pc = "tx_images"]
                  /\ UNCHANGED <<db, aiEnabled, calls, agg, nt>>
             ELSE Abort("error")
     ELSE /\ req' = [req EXCEPT !.pc = "tx_images"]
          /\ UNCHANGED <<db, tx, aiEnabled, calls, agg, nt>>

\* if payload.image_urls: replace_images(diary, payload.image_urls, using_db=conn)
TxImages ==
  /\ req.op = "create" /\ req.pc = "tx_images"
  /\ tx' = IF req.payload.image_urls # <<>>
           THEN [tx EXCEPT !.t = replace_images(tx.t, req.id, req.payload.image_urls)]
           ELSE tx
  /\ req' = [req EXCEPT !.pc = "tx_commit"]
  /\ UNCHANGED <<db, aiEnabled, calls, agg, nt>>

\* a faulty variant of TxCommit: create goes on with the transaction open
TxCommitLate ==
  /\ req.op = "create" /\ req.pc = "tx_commit"
  /\ req' = [req EXCEPT !.pc = "validate"]
  /\ UNCHANGED <<db, tx, aiEnabled, calls, agg, nt>>

\* leaving the async with block: commit
TxCommit ==
  /\ req.op = "create" /\ req.pc = "tx_commit"
  /\ db' = tx.t
  /\ tx' = Closed(tx)
  /\ req' = [req EXCEPT !.pc = "validate"]
  /\ UNCHANGED <<aiEnabled, calls, agg, nt>>

\* a database failure at any statement of the transaction (or at the commit)
TxFail ==
  /\ req.op = "create"
  /\ req.pc \in {"tx_create", "tx_tags", "tx_images", "tx_commit"}
  /\ Abort("db_error")

\* content_txt and len(content_txt) < 10 raises HTTPException(422)
TooShort(content) == content.txt # 0 /\ content.txt < MinContentLen

\* if ai and not payload.emotion_analysis_report
WantsAi(r) == r.ai /\ ~Truthy(r.payload.emotion_analysis_report)

Validate ==
  /\ req.op = "create" /\ req.pc = "validate"
  /\ req' = IF TooShort(req.payload.content) THEN Finish(req, "422", NoResp)
            ELSE [req EXCEPT !.pc = IF WantsAi(req) THEN "ai_call" ELSE "read"]
  /\ UNCHANGED <<db, tx, aiEnabled, calls, agg, nt>>

\* DiaryEmotionRequest(diary_content=...) raises when the content is shorter
\* than min_length; the except clause swallows it and no call is made
RequestInvalid(content) == content.raw < MinRequestLen

\* diary_content of the request: payload.content
AiContent(r) == IF r.op = "create" THEN r.payload.content ELSE r.payload.content.v

\* where the handler goes on after the enrichment block
AfterAi(r) == IF r.op = "create" THEN "read" ELSE "patch"

AiSkip ==
  /\ req.pc = "ai_call" /\ RequestInvalid(AiContent(req))
  /\ req' = [req EXCEPT !.pc = AfterAi(req)]
  /\ UNCHANGED <<db, tx, aiEnabled, calls, agg, nt>>

\* ai_result = await ai.analyze_diary_emotion(req) returns within the deadline
AiReturn(label) ==
  /\ req.pc = "ai_call" /\ ~RequestInvalid(AiContent(req))
  /\ req' = [req EXCEPT !.pc = "ai_save", !.ai_result = Result(label),
                        !.enrich = "returned"]
  /\ UNCHANGED <<db, tx, aiEnabled, calls, agg, nt>>

\* the call raises AIServiceError: except Exception logs it and goes on
AiRaise ==
  /\ req.pc = "ai_call" /\ ~RequestInvalid(AiContent(req))
  /\ req' = [req EXCEPT !.pc = AfterAi(req), !.enrich = "raised"]
  /\ UNCHANGED <<db, tx, aiEnabled, calls, agg, nt>>

\* the deadline of move_on_after(6) passes during the call. The call is
\* model.generate_content(...), a synchronous call with no await before it:
\* the scope cannot cancel it, the result is assigned when it returns and the
\* cancellation is delivered at the next suspension point, inside the save
AiTimeout(label) ==
  /\ req.pc = "ai_call" /\ ~RequestInvalid(AiContent(req))
  /\ req' = [req EXCEPT !.pc = "ai_save", !.ai_result = Result(label),
                        !.enrich = "timeout"]
  /\ UNCHANGED <<db, tx, aiEnabled, calls, agg, nt>>

\* update_partially(diary, patch): setattr for each allowed key
Patched(diary, patch) ==
  [k \in DOMAIN diary |-> IF k \in DOMAIN patch THEN patch[k] ELSE diary[k]]

\* await diary.save(): every column of the instance is written to its row
Saved(t, diary) == [t EXCEPT !.diaries[diary.id] = RowOf(diary)]

AiPatch(r) == [emotion_analysis_report |-> to_dict(r.ai_result)]

\* update_partially(diary, {main_emotion, emotion_analysis_report}) completes
AiSave ==
  /\ req.pc = "ai_save" /\ req.enrich = "returned"
  /\ LET diary == Patched(req.obj, AiPatch(req))
     IN /\ SaveGuard(diary)
        /\ db' = Saved(db, diary)
        /\ req' = [req EXCEPT !.pc = AfterAi(req), !.obj = diary, !.enrich = "saved"]
  /\ UNCHANGED <<tx, aiEnabled, calls, agg, nt>>

\* the save raises: the instance keeps the new attributes, the row is not written
AiSaveFail ==
  /\ req.pc = "ai_save" /\ req.enrich = "returned"
  /\ req' = [req EXCEPT !.pc = AfterAi(req), !.obj = Patched(req.obj, AiPatch(req)),
                        !.enrich = "save_failed"]
  /\ UNCHANGED <<db, tx, aiEnabled, calls, agg, nt>>

\* the save is cancelled at a suspension point (the deadline passed before or
\* during it): the UPDATE was handed to the driver or it was not
AiSaveCancelled(applied) ==
  /\ req.pc = "ai_save"
  /\ LET diary == Patched(req.obj, AiPatch(req))
     IN /\ db' = IF applied THEN Saved(db, diary) ELSE db
        /\ req' = [req EXCEPT !.pc = AfterAi(req), !.obj = diary,
                              !.enrich = IF @ = "timeout" THEN @ ELSE "save_cancelled"]
  /\ UNCHANGED <<tx, aiEnabled, calls, agg, nt>>

\* fresh = get_by_id(diary.id); resp = to_diary_response(fresh); the result
\* of the call, when there is one, replaces the report of the response
ReadBack ==
  /\ req.op = "create" /\ req.pc = "read"
  /\ LET resp == to_diary_response(get_by_id(db, req.id))
     IN req' = Finish(req, "ok",
                      IF req.ai_result.got
                      THEN [resp EXCEPT !.emotion_analysis_report = to_dict(req.ai_result)]
                      ELSE resp)
  /\ UNCHANGED <<db, tx, aiEnabled, calls, agg, nt>>

\* ------------------------------------------------------------------------
\* DiaryService.update
\* ------------------------------------------------------------------------
\* the scalar patch: title and content when they are not None
ScalarPatch(p) ==
  [k \in {x \in {"title", "content"} : p[x].given} |-> p[k].v]

\* an update request for an entry ever created arrives, with one of the
\* payloads: ai = _resolve_ai(); d = get_by_id(origin_diary.id);
\* if not d: return None; the patch is built and the enrichment block entered
\* when content is given
UpdateBegin(payloads) ==
  /\ Free
  /\ \E d \in 1..db.seq, p \in payloads, ai \in ResolveAi :
       LET r == Request("update", p, ai, d)
       IN req' = IF d \notin DiaryIds(db) THEN Finish(r, "none", NoResp)
                 ELSE [r EXCEPT !.obj = get_by_id(db, d),
                                !.pc = IF p.content.given /\ ai THEN "ai_call"
                                       ELSE "patch"]
  /\ UNCHANGED <<db, tx, aiEnabled, calls, agg, nt>>

\* if patch: d = update_partially(d, patch)
UpdPatch ==
  /\ req.op = "update" /\ req.pc = "patch"
  /\ LET patch == ScalarPatch(req.payload)
         diary == Patched(req.obj, patch)
     IN IF DOMAIN patch # {}
        THEN /\ SaveGuard(diary)
             /\ db' = Saved(db, diary)
             /\ req' = [req EXCEPT !.pc = "tags", !.obj = diary]
        ELSE /\ req' = [req EXCEPT !.pc = "tags"]
             /\ UNCHANGED db
  /\ UNCHANGED <<tx, aiEnabled, calls, agg, nt>>

\* if payload.tags is not None: replace_tags(d, payload.tags)
UpdTags ==
  /\ req.op = "update" /\ req.pc = "tags"
  /\ IF req.payload.tags.given
     THEN LET r == replace_tags(db, req.id, req.payload.tags.v)
          IN /\ db' = r.db
             /\ req' = IF r.ok THEN [req EXCEPT !.pc = "images"]
                       ELSE Finish(req, "error", NoResp)
     ELSE /\ req' = [req EXCEPT !.pc = "images"]
          /\ UNCHANGED db
  /\ UNCHANGED <<tx, aiEnabled, calls, agg, nt>>

\* a faulty variant of UpdImages: None is taken for the empty list
UpdImagesAlways ==
  /\ req.op = "update" /\ req.pc = "images"
  /\ db' = replace_images(db, req.id,
                          IF req.payload.image_urls.given
                          THEN req.payload.image_urls.v ELSE <<>>)
  /\ req' = [req EXCEPT !.pc = "respond"]
  /\ UNCHANGED <<tx, aiEnabled, calls, agg, nt>>

\* if payload.image_urls is not None: replace_images(d, payload.image_urls)
UpdImages ==
  /\ req.op = "update" /\ req.pc = "images"
  /\ db' = IF req.payload.image_urls.given
           THEN replace_images(db, req.id, req.payload.image_urls.v)
           ELSE db
  /\ req' = [req EXCEPT !.pc = "respond"]
  /\ UNCHANGED <<tx, aiEnabled, calls, agg, nt>>

\* a database failure in the save or in one of the two replacements: each
\* runs in its own transaction, the exception leaves update
UpdFail ==
  /\ req.op = "update"
  /\ \/ req.pc = "patch" /\ DOMAIN ScalarPatch(req.payload) # {}
     \/ req.pc = "tags" /\ req.payload.tags.given
     \/ req.pc = "images" /\ req.payload.image_urls.given
  /\ req' = Finish(req, "db_error", NoResp)
  /\ UNCHANGED <<db, tx, aiEnabled, calls, agg, nt>>

\* TagOut(name=t.strip()) for t in payload.tags if t.strip()
TagsOverride(names) == SelectSeq(MapStrip(names), NonEmpty)

\* DiaryImageOut(url=u, order=i + 1) for i, u in enumerate(urls)
ImagesOverride(urls) == ImageRows(urls)

\* trans_resp = to_diary_response(d), with the tags and images of the
\* payload written over it when they were given
UpdRespond ==
  /\ req.op = "update" /\ req.pc = "respond"
  /\ LET p == req.payload
         r0 == to_diary_response(req.obj)
         r1 == IF p.tags.given THEN [r0 EXCEPT !.tags = TagsOverride(p.tags.v)] ELSE r0
         r2 == IF p.image_urls.given
               THEN [r1 EXCEPT !.image_urls = ImagesOverride(p.image_urls.v)] ELSE r1
     IN req' = Finish(req, "ok", r2)
  /\ UNCHANGED <<db, tx, aiEnabled, calls, agg, nt>>

\* ------------------------------------------------------------------------
\* DiaryService.get, DiaryService.delete
\* ------------------------------------------------------------------------
Get ==
  /\ Free
  /\ \E d \in 1..db.seq :
       LET r == Request("get", NoPayload, FALSE, d)
       IN req' = IF d \in DiaryIds(db)
                 THEN Finish(r, "ok", to_diary_response(get_by_id(db, d)))
                 ELSE Finish(r, "none", NoResp)
  /\ UNCHANGED <<db, tx, aiEnabled, calls, agg, nt>>

\* diary.delete(): images and diary_tag rows go with the row (CASCADE)
repository_delete(t, d) ==
  [t EXCEPT !.diaries = Drop(@, d), !.diaryTags = Drop(@, d), !.images = Drop(@, d)]

Delete ==
  /\ Free
  /\ \E d \in 1..db.seq :
       LET r == Request("delete", NoPayload, FALSE, d)
       IN IF d \in DiaryIds(db)
          THEN /\ db' = repository_delete(db, d)
               /\ req' = Finish(r, "ok", NoResp)
          ELSE /\ req' = Finish(r, "none", NoResp)
               /\ UNCHANGED db
  /\ UNCHANGED <<tx, aiEnabled, calls, agg, nt>>

\* ------------------------------------------------------------------------
\* The create pipeline: requests, the transaction, validation, enrichment
\* ------------------------------------------------------------------------
NoAgg ==
  [pc |-> "idle", rows |-> <<>>, i |-> 1, counter |-> <<>>, status |-> "none",
   stands |-> <<>>]
\* no concurrent call
NoCalls == [heap |-> {}, seq |-> 0, c |-> <<>>, entry |-> 0, base |-> EmptyDb]

NoNt ==
  [pc |-> "idle", status |-> "none", i |-> 1, queue |-> <<>>, targets |-> <<>>,
   master |-> <<>>, users |-> <<>>, stats |-> <<>>, assigns |-> <<>>,
   runs |-> 0, before |-> <<>>, sent |-> <<>>, log |-> <<>>]

\* tag names and URLs of the requests
NameA == <<"a">>
NameAA == <<"a", "a">>
UrlU == <<"u">>
UrlUU == <<"u", "u">>

\* blank, one short of the minimum, the minimum, one over it
Contents ==
  {Text(MinContentLen - 1, 0), Text(MinContentLen - 1, MinContentLen - 1),
   Text(MinContentLen, MinContentLen), Text(MinContentLen + 1, MinContentLen + 1)}

\* a report supplied by the client
SuppliedReport == PyDict([k \in {"main_emotion"} |-> PyWord(POSITIVE)])

\* values that are no JSON object: a string and an array
BareReports == {PyStr(<<"x">>), PyList(<<PyNum>>)}

CreatePayloads ==
  [title : {"t1"},
   content : Contents,
   tags : {<<>>, <<NameAA, NameA>>},
   image_urls : {<<>>, <<UrlUU, UrlU>>},
   emotion_analysis_report : {PyNone, SuppliedReport, PyDict(<<>>)} \cup BareReports]

Init ==
  /\ db = EmptyDb
  /\ tx = NoTx
  /\ req = Idle
  /\ aiEnabled \in BOOLEAN
  /\ calls = NoCalls
  /\ agg = NoAgg
  /\ nt = NoNt

Next ==
  \/ CreateBegin(CreatePayloads)
  \/ TxCreate
  \/ TxTags
  \/ TxImages
  \/ TxCommit
  \/ TxFail
  \/ Validate
  \/ AiSkip
  \/ \E label \in MainEmotionType : AiReturn(label)
  \/ AiRaise
  \/ \E label \in MainEmotionType : AiTimeout(label)
  \/ AiSave
  \/ AiSaveFail
  \/ \E applied \in BOOLEAN : AiSaveCancelled(applied)
  \/ ReadBack

Spec == Init /\ [][Next]_vars

\* ------------------------------------------------------------------------
\* Text-level creates: every tag list / URL list over a small alphabet
\* ------------------------------------------------------------------------
\* the tables after the transaction of a create that commits
create_committed(t, p) ==
  LET t1 == repository_create(t, p)
      d == t1.seq
      t2 == IF p.tags # <<>> THEN ReplaceTagsOn(t1, d, p.tags).db ELSE t1
  IN IF p.image_urls # <<>> THEN replace_images(t2, d, p.image_urls) ELSE t2

\* a body of valid length
Body == Text(MinContentLen + 1, MinContentLen + 1)

SeedPayload ==
  [title |-> "t0", content |-> Body, tags |-> <<NameA>>, image_urls |-> <<UrlU>>,
   emotion_analysis_report |-> PyNone]

\* n entries created earlier
RECURSIVE Seeded(_)
Seeded(n) == IF n = 0 THEN EmptyDb ELSE create_committed(Seeded(n - 1), SeedPayload)

\* the lists of at most n names that hold at most c characters together
RECURSIVE ListsWithin(_, _)
ListsWithin(n, c) ==
  IF n = 0 THEN {<<>>}
  ELSE {<<>>} \cup
       UNION {{<<s>> \o l : l \in ListsWithin(n - 1, c - Len(s))} :
                s \in StrsUpTo(TagChars, IF c < MaxNameLen THEN c ELSE MaxNameLen)}

TagLists == ListsWithin(MaxTags, MaxChars)
UrlLists == ListsUpTo(StrsUpTo(UrlChars, MaxUrlLen), MaxUrls)

TagPayloads ==
  [title : {"t1"}, content : {Body}, tags : TagLists, image_urls : {<<>>},
   emotion_analysis_report : {PyNone}]

UrlPayloads ==
  [title : {"t1"}, content : {Body}, tags : {<<>>}, image_urls : UrlLists,
   emotion_analysis_report : {PyNone}]

InitText ==
  /\ db = Seeded(MaxDiaries - 1)
  /\ tx = [NoTx EXCEPT !.begun = MaxDiaries - 1]
  /\ req = Idle
  /\ aiEnabled = FALSE
  /\ calls = NoCalls
  /\ agg = NoAgg
  /\ nt = NoNt

NextText ==
  \/ CreateBegin(TagPayloads)
  \/ TxCreate
  \/ TxTags
  \/ TxImages
  \/ TxCommit
  \/ TxFail
  \/ Validate
  \/ ReadBack
  \/ Get

SpecText == InitText /\ [][NextText]_vars

\* ------------------------------------------------------------------------
\* Image replacement: text-level creates, then updates and reads
\* ------------------------------------------------------------------------
\* names and URLs of the update requests: plain, padded, blank
Padded(s) == <<" ">> \o s
RetagNames == {NameAA, Padded(NameA)}
ReimageUrls == {UrlUU, Padded(UrlU), <<" ">>}

NoChange ==
  [title |-> Omitted, content |-> Omitted, tags |-> Omitted, image_urls |-> Omitted]

ImageUpdates ==
  {[NoChange EXCEPT !.image_urls = Given(l)] : l \in ListsUpTo(ReimageUrls, MaxUrls)}

NextImages ==
  \/ CreateBegin(UrlPayloads)
  \/ TxCreate
  \/ TxTags
  \/ TxImages
  \/ TxCommit
  \/ TxFail
  \/ Validate
  \/ ReadBack
  \/ UpdateBegin(ImageUpdates)
  \/ UpdPatch
  \/ UpdTags
  \/ UpdImages
  \/ UpdFail
  \/ UpdRespond
  \/ Get

SpecImages == InitText /\ [][NextImages]_vars

\* ------------------------------------------------------------------------
\* Updates of an existing entry
\* ------------------------------------------------------------------------
SeedPayloads ==
  [title : {"t1"}, content : {Body},
   tags : {<<>>, <<NameA>>, <<NameAA, NameA>>},
   image_urls : {<<>>, <<UrlUU, UrlU>>},
   emotion_analysis_report : {PyNone, SuppliedReport}]

UpdatePayloads ==
  [title : {Omitted, Given("t2")},
   content : {Omitted, Given(Body), Given(Text(MinRequestLen - 1, MinRequestLen - 1))},
   tags : {Omitted} \cup {Given(l) : l \in ListsUpTo(RetagNames, MaxTags)},
   image_urls : {Omitted, Given(<<>>), Given(<<Padded(UrlU), UrlU>>)}]

InitUpdate ==
  /\ db \in {create_committed(EmptyDb, p) : p \in SeedPayloads}
  /\ tx = NoTx
  /\ req = Idle
  /\ aiEnabled \in BOOLEAN
  /\ calls = NoCalls
  /\ agg = NoAgg
  /\ nt = NoNt

\* a run issues one update, on the entry as it stands or after its deletion
NoUpdateYet == req.op \in {"none", "delete"}

NextUpdate ==
  \/ NoUpdateYet /\ UpdateBegin(UpdatePayloads)
  \/ AiSkip
  \/ \E label \in MainEmotionType : AiReturn(label)
  \/ AiRaise
  \/ \E label \in MainEmotionType : AiTimeout(label)
  \/ AiSave
  \/ AiSaveFail
  \/ \E applied \in BOOLEAN : AiSaveCancelled(applied)
  \/ UpdPatch
  \/ UpdTags
  \/ UpdImages
  \/ UpdFail
  \/ UpdRespond
  \/ Get
  \/ Delete

SpecUpdate == InitUpdate /\ [][NextUpdate]_vars

\* ------------------------------------------------------------------------
\* DiaryService.emotion_stats
\* ------------------------------------------------------------------------
\* a faulty variant of RepDict: a str report is not parsed
RepDictNoParse(rep) == IF rep.kind = "dict" THEN rep ELSE PyDict(<<>>)

\* rep_dict of a row: {} for None, the parsed object of a str (or {} when it
\* does not parse or is not an object), the dict itself, {} for anything else
RepDict(rep) ==
  CASE rep.kind = "none" -> PyDict(<<>>)
    [] rep.kind = "str" ->
         LET parsed == Loads(rep.text)
         IN IF parsed.ok /\ IsDict(parsed.v) THEN parsed.v ELSE PyDict(<<>>)
    [] rep.kind = "dict" -> rep
    [] OTHER -> PyDict(<<>>)

\* me: rep_dict.get("main_emotion"), else the one of its emotion_analysis dict
MainEmotionOf(rep) ==
  LET d == RepDict(rep)
      me == DictGet(d, "main_emotion")
      ea == DictGet(d, "emotion_analysis")
  IN IF me.kind = "none" /\ IsDict(ea) THEN DictGet(ea, "main_emotion") ELSE me

\* _norm_emotion(e): None for None, the label of a valid str, ValueError for
\* an empty str and for anything that is not a label
_norm_emotion(e) ==
  IF e.kind = "none" THEN [raised |-> FALSE, label |-> "none"]
  ELSE IF e.kind = "str" /\ Len(e.text) = 1 /\ e.text[1] \in MainEmotionType
       THEN [raised |-> FALSE, label |-> e.text[1]]
  ELSE [raised |-> TRUE, label |-> "none"]

\* counter[label] += 1
Incremented(counter, label) ==
  Put(counter, label, IF label \in DOMAIN counter THEN counter[label] + 1 ELSE 1)

\* list_by_filters without filters: every row, newest (highest id) first
RowsNewestFirst(t) == [i \in 1..Len(t.diaries) |-> t.diaries[Len(t.diaries) + 1 - i]]

StatsFree == agg.pc \in {"idle", "done"}

\* rows, _ = repository.list_by_filters(...); counter = Counter()
StatsBegin ==
  /\ StatsFree
  /\ agg' = [agg EXCEPT !.pc = "loop", !.rows = RowsNewestFirst(db), !.i = 1,
                        !.counter = <<>>, !.status = "running"]
  /\ UNCHANGED <<db, tx, req, aiEnabled, calls, nt>>

\* one pass of the loop over rows
StatsRow ==
  /\ agg.pc = "loop" /\ agg.i <= Len(agg.rows)
  /\ LET n == _norm_emotion(MainEmotionOf(agg.rows[agg.i].emotion_analysis_report))
     IN agg' = IF n.raised THEN [agg EXCEPT !.pc = "done", !.status = "error"]
               ELSE [agg EXCEPT !.i = @ + 1,
                                !.counter = IF n.label # "none"
                                            THEN Incremented(@, n.label) ELSE @]
  /\ UNCHANGED <<db, tx, req, aiEnabled, calls, nt>>

\* return dict(counter)
StatsReturn ==
  /\ agg.pc = "loop" /\ agg.i > Len(agg.rows)
  /\ agg' = [agg EXCEPT !.pc = "done", !.status = "ok"]
  /\ UNCHANGED <<db, tx, req, aiEnabled, calls, nt>>

\* the shapes a stored report can have, each with the label it stands for
\* ("none": it stands for no label, "invalid": its label is not a label)
Labelled(label) == PyDict([k \in {"main_emotion"} |-> PyWord(label)])
Nested(label) == PyDict([k \in {"emotion_analysis"} |-> Labelled(label)])
Shape(rep, stands) == [emotion_analysis_report |-> rep, stands |-> stands]

ReportShapes ==
  {Shape(PyNone, "none")}
  \cup {Shape(Labelled(l), l) : l \in MainEmotionType}
  \cup {Shape(PyStr(Dumps(Labelled(l))), l) : l \in MainEmotionType}
  \cup {Shape(Nested(NEGATIVE), NEGATIVE),
        Shape(PyStr(Dumps(Nested(NEGATIVE))), NEGATIVE),
        Shape(PyDict([k \in {"main_emotion", "emotion_analysis"} |->
                        IF k = "main_emotion" THEN PyNone ELSE Labelled(POSITIVE)]),
              POSITIVE),
        Shape(PyDict([k \in {"main_emotion", "emotion_analysis"} |->
                        IF k = "main_emotion" THEN PyWord(NEGATIVE)
                        ELSE Labelled(POSITIVE)]),
              NEGATIVE),
        Shape(PyDict([k \in {"other"} |-> PyNum]), "none"),
        Shape(PyStr(<<"{", Quoted(NEGATIVE)>>), "none"),
        Shape(PyStr(Dumps(PyList(<<PyWord(NEGATIVE)>>))), "none"),
        Shape(PyStr(Dumps(PyWord(NEGATIVE))), "none"),
        Shape(PyList(<<PyWord(NEGATIVE)>>), "none"),
        Shape(PyNum, "none"),
        Shape(Labelled("other"), "invalid"),
        Shape(Labelled(""), "invalid")}

\* the diaries table holding the given rows, oldest first
StatsDb(shapes) ==
  [EmptyDb EXCEPT
     !.diaries = [i \in 1..Len(shapes) |->
                    [title |-> "t1", content |-> Body,
                     emotion_analysis_report |-> shapes[i].emotion_analysis_report]],
     !.diaryTags = [i \in 1..Len(shapes) |-> {}],
     !.images = [i \in 1..Len(shapes) |-> <<>>],
     !.seq = Len(shapes)]

InitStats ==
  /\ \E shapes \in ListsUpTo(ReportShapes, MaxRows) :
       /\ db = StatsDb(shapes)
       /\ agg = [pc |-> "idle", rows |-> <<>>, i |-> 1, counter |-> <<>>,
                 status |-> "none",
                 stands |-> [i \in 1..Len(shapes) |-> shapes[i].stands]]
  /\ tx = NoTx
  /\ req = Idle
  /\ aiEnabled = FALSE
  /\ calls = NoCalls
  /\ nt = NoNt

NextStats ==
  \/ StatsBegin
  \/ StatsRow
  \/ StatsReturn

SpecStats == InitStats /\ [][NextStats]_vars

\* ------------------------------------------------------------------------
\* Notification targeting: get_notification_targets
\* ------------------------------------------------------------------------
\* Notification rows (weekday, notification_type), the id of a row being its
\* place; unique on (weekday, notification_type)
SeededMaster ==
  <<[weekday |-> "today", notification_type |-> "SMS"],
    [weekday |-> "today", notification_type |-> "EMAIL"],
    [weekday |-> "other", notification_type |-> "SMS"],
    [weekday |-> "other", notification_type |-> "EMAIL"]>>

\* a master table without the rows of today
OtherDayMaster == SubSeq(SeededMaster, 3, 4)

\* EmotionStats rows: today tells whether created_at lies in today
StatRow(emotion, frequency, today) ==
  [period_type |-> "weekly", emotion_type |-> emotion, frequency |-> frequency,
   today |-> today]

StatRowKinds ==
  {StatRow(NEGATIVE, Threshold - 1, TRUE), StatRow(NEGATIVE, Threshold, TRUE),
   StatRow(NEGATIVE, Threshold, FALSE)}

\* EmotionStats.get_or_none(user_id, WEEKLY, created today, NEGATIVE)
TodaysNegative(n, u) ==
  SelectSeq(n.stats[u], LAMBDA r : r.period_type = "weekly" /\ r.today
                                   /\ r.emotion_type = NEGATIVE)

\* check_weekly_negative_emotions(user_id); get_or_none raises
\* MultipleObjectsReturned when several rows match
check_weekly_negative_emotions(n, u) ==
  LET m == TodaysNegative(n, u)
  IN [raised |-> Len(m) > 1,
      value |-> Len(m) = 1 /\ m[1].frequency >= Threshold]

\* the places of the UserNotification rows of user u
AssignsOf(n, u) == {k \in 1..Len(n.assigns) : n.assigns[k].user = u}

\* Notification.get_or_none(weekday=weekday, notification_type=notif_type)
MasterOf(n, type) ==
  {k \in 1..Len(n.master) :
     n.master[k].weekday = "today" /\ n.master[k].notification_type = type}

\* an exception leaves get_notification_targets: nothing is returned, the
\* rows already saved stay (the run has no transaction)
Raised(n, status) == [n EXCEPT !.pc = "done", !.status = status, !.targets = <<>>]

\* a faulty variant of Undefined: the user is passed over
UndefinedSkipped(n) == [n EXCEPT !.i = @ + 1]

\* if not notif: raise HTTPException(status_code=500, ...)
Undefined(n) == Raised(n, "500")

\* a faulty variant of Reassign: a second row is written for the user
ReassignAppending(assigns, k, notif) ==
  IF assigns[k].notification # notif
  THEN Append(assigns, [user |-> assigns[k].user, notification |-> notif])
  ELSE assigns

\* if user_notif.notification_id != notif.id: user_notif.notification = notif;
\* await user_notif.save()
Reassign(assigns, k, notif) ==
  IF assigns[k].notification # notif
  THEN [assigns EXCEPT ![k].notification = notif]
  ELSE assigns

\* one pass of the loop over users, for user u: the new tables and targets,
\* or the exception
Pass(n, u) ==
  LET c == check_weekly_negative_emotions(n, u)
      rows == AssignsOf(n, u)
  IN IF c.raised THEN Raised(n, "error")
     ELSE IF ~c.value THEN [n EXCEPT !.i = @ + 1]
     ELSE IF Cardinality(rows) > 1 THEN Raised(n, "error")
     ELSE IF rows = {} THEN [n EXCEPT !.i = @ + 1]
     ELSE LET k == CHOOSE x \in rows : TRUE
              type == n.master[n.assigns[k].notification].notification_type
              found == MasterOf(n, type)
          IN IF found = {} THEN Undefined(n)
             ELSE LET notif == CHOOSE x \in found : TRUE
                  IN [n EXCEPT !.assigns = Reassign(@, k, notif),
                               !.targets = Append(@, [user |-> u, notification |-> notif,
                                                      notification_type |-> type]),
                               !.i = @ + 1]

TargetsFree == nt.pc \in {"idle", "done"}

\* users = User.filter(receive_notifications=True); targets = []
TargetsBegin ==
  /\ TargetsFree
  /\ nt.runs < MaxRuns
  /\ nt' = [nt EXCEPT !.pc = "loop", !.status = "running", !.targets = <<>>, !.i = 1,
                      !.runs = @ + 1, !.before = nt.assigns,
                      !.queue = SelectSeq([u \in 1..Len(nt.users) |-> u],
                                          LAMBDA u : nt.users[u].receive_notifications)]
  /\ UNCHANGED <<db, tx, req, aiEnabled, calls, agg>>

TargetsUser ==
  /\ nt.pc = "loop" /\ nt.i <= Len(nt.queue)
  /\ nt' = Pass(nt, nt.queue[nt.i])
  /\ UNCHANGED <<db, tx, req, aiEnabled, calls, agg>>

\* return targets
TargetsReturn ==
  /\ nt.pc = "loop" /\ nt.i > Len(nt.queue)
  /\ nt' = [nt EXCEPT !.pc = "done", !.status = "ok"]
  /\ UNCHANGED <<db, tx, req, aiEnabled, calls, agg>>

\* the tables before a run: users with their setting, their statistics rows
\* and at most one UserNotification row each
UserSetups(master) ==
  [receive_notifications : BOOLEAN,
   stats : ListsUpTo(StatRowKinds, MaxStatRows),
   assigned : {0} \cup (1..Len(master))]

\* the UserNotification rows of the users, in user order
RECURSIVE AssignRows(_, _)
AssignRows(setups, u) ==
  IF u > Len(setups) THEN <<>>
  ELSE (IF setups[u].assigned = 0 THEN <<>>
        ELSE <<[user |-> u, notification |-> setups[u].assigned]>>)
       \o AssignRows(setups, u + 1)

InitNotif ==
  /\ \E master \in {SeededMaster, OtherDayMaster} :
       \E k \in 1..MaxUsers :
         \E setups \in ListsOfLen(UserSetups(master), k) :
           nt = [NoNt EXCEPT
                   !.master = master,
                   !.users = [u \in 1..k |->
                                [receive_notifications |-> setups[u].receive_notifications]],
                   !.stats = [u \in 1..k |-> setups[u].stats],
                   !.assigns = AssignRows(setups, 1),
                   !.before = AssignRows(setups, 1)]
  /\ db = EmptyDb
  /\ tx = NoTx
  /\ req = Idle
  /\ aiEnabled = FALSE
  /\ calls = NoCalls
  /\ agg = NoAgg

NextNotif ==
  \/ TargetsBegin
  \/ TargetsUser
  \/ TargetsReturn

SpecNotif == InitNotif /\ [][NextNotif]_vars

\* ------------------------------------------------------------------------
\* Notification dispatch: send_notifications
\* ------------------------------------------------------------------------
NotificationType == {"PUSH", "EMAIL", "SMS"}

\* TEST_MODE = False: the adapters are called
TEST_MODE == FALSE

\* what a call of an adapter comes to: the exception that leaves it, if any,
\* and whether the transport took the message
Went(delivered) == [raised |-> FALSE, delivered |-> delivered]
Threw == [raised |-> TRUE, delivered |-> FALSE]

\* a faulty variant of send_sms: the exception of the transport leaves it
send_sms_uncaught(transport) == IF transport = "ok" THEN Went(TRUE) ELSE Threw

\* send_sms: try: message_service.send(message) except Exception: print
send_sms(transport) == Went(transport = "ok")

\* send_email: try: with smtplib.SMTP(...) ... except Exception: print
send_email(transport) == Went(transport = "ok")

\* send_push_notification: print only
send_push_notification(transport) == Went(TRUE)

\* the branch on notif_type
Adapter(type, transport) ==
  CASE type = "PUSH" -> send_push_notification(transport)
    [] type = "SMS" -> send_sms(transport)
    [] OTHER -> send_email(transport)

\* the target lists of a batch: target k is user k with one of the channels
TargetLists ==
  UNION {[1..k -> NotificationType] : k \in 0..MaxTargets}

\* send_notifications(targets): sent = []
SendBegin ==
  /\ nt.pc \in {"idle", "done"}
  /\ \E types \in TargetLists :
       nt' = [nt EXCEPT !.pc = "send", !.status = "running", !.i = 1,
                        !.sent = <<>>, !.log = <<>>,
                        !.targets = [k \in 1..Len(types) |->
                                       [user |-> k, notification_type |-> types[k]]]]
  /\ UNCHANGED <<db, tx, req, aiEnabled, calls, agg>>

\* one pass of the loop over targets: the adapter of the channel is called
\* (in TEST_MODE nothing is) and the user is appended to sent
SendOne(transport) ==
  /\ nt.pc = "send" /\ nt.i <= Len(nt.targets)
  /\ LET t == nt.targets[nt.i]
         r == IF TEST_MODE THEN Went(FALSE) ELSE Adapter(t.notification_type, transport)
         attempt == [user |-> t.user, delivered |-> r.delivered]
     IN nt' = IF r.raised
              THEN [nt EXCEPT !.pc = "done", !.status = "error", !.sent = <<>>,
                              !.log = Append(@, attempt)]
              ELSE [nt EXCEPT !.i = @ + 1, !.log = Append(@, attempt),
                              !.sent = Append(@, t.user)]
  /\ UNCHANGED <<db, tx, req, aiEnabled, calls, agg>>

\* return sent
SendReturn ==
  /\ nt.pc = "send" /\ nt.i > Len(nt.targets)
  /\ nt' = [nt EXCEPT !.pc = "done", !.status = "ok"]
  /\ UNCHANGED <<db, tx, req, aiEnabled, calls, agg>>

InitSend ==
  /\ nt = NoNt
  /\ db = EmptyDb
  /\ tx = NoTx
  /\ req = Idle
  /\ aiEnabled = FALSE
  /\ calls = NoCalls
  /\ agg = NoAgg

NextSend ==
  \/ SendBegin
  \/ \E transport \in {"ok", "raises"} : SendOne(transport)
  \/ SendReturn

SpecSend == InitSend /\ [][NextSend]_vars

\* ------------------------------------------------------------------------
\* The seed of the catalogue: seed_notifications
\* ------------------------------------------------------------------------
\* the keys of WEEKDAY_MESSAGES
Weekdays == 0..6

\* the members of NotificationType in the order of the enumeration
TypeOrder == <<"PUSH", "EMAIL", "SMS">>

\* the rows the two loops create, in the order they create them (the rows
\* of the catalogue carry the number of their weekday here)
SeedRows ==
  [n \in 1..(Cardinality(Weekdays) * Len(TypeOrder)) |->
     [weekday |-> (n - 1) \div Len(TypeOrder),
      notification_type |-> TypeOrder[((n - 1) % Len(TypeOrder)) + 1]]]

\* exists = await Notification.exists(); if exists: return
SeedBegin ==
  /\ nt.pc \in {"idle", "done"}
  /\ nt.runs < MaxRuns
  /\ nt' = IF nt.master # <<>>
           THEN [nt EXCEPT !.pc = "done", !.status = "skipped", !.runs = @ + 1]
           ELSE [nt EXCEPT !.pc = "seed", !.status = "running", !.i = 1, !.runs = @ + 1]
  /\ UNCHANGED <<db, tx, req, aiEnabled, calls, agg>>

\* await Notification.create(weekday, notification_type, content): each row
\* is committed on its own; unique_together refuses a pair that is there
SeedRow ==
  /\ nt.pc = "seed" /\ nt.i <= Len(SeedRows)
  /\ nt' = IF SeedRows[nt.i] \in Range(nt.master)
           THEN [nt EXCEPT !.pc = "done", !.status = "error"]
           ELSE [nt EXCEPT !.master = Append(@, SeedRows[nt.i]), !.i = @ + 1]
  /\ UNCHANGED <<db, tx, req, aiEnabled, calls, agg>>

\* the database fails at a create (the connection is lost): the exception
\* leaves seed_notifications, the rows created so far stay
SeedFail ==
  /\ nt.pc = "seed" /\ nt.i <= Len(SeedRows)
  /\ nt' = [nt EXCEPT !.pc = "done", !.status = "db_error"]
  /\ UNCHANGED <<db, tx, req, aiEnabled, calls, agg>>

\* the loops are through
SeedReturn ==
  /\ nt.pc = "seed" /\ nt.i > Len(SeedRows)
  /\ nt' = [nt EXCEPT !.pc = "done", !.status = "ok"]
  /\ UNCHANGED <<db, tx, req, aiEnabled, calls, agg>>

NextSeed ==
  \/ SeedBegin
  \/ SeedRow
  \/ SeedFail
  \/ SeedReturn

\* the first start: the catalogue is empty
InitSeed ==
  /\ nt = NoNt
  /\ db = EmptyDb
  /\ tx = NoTx
  /\ req = Idle
  /\ aiEnabled = FALSE
  /\ calls = NoCalls
  /\ agg = NoAgg

SpecSeed == InitSeed /\ [][NextSeed]_vars

\* ------------------------------------------------------------------------
\* Listing: DiaryService.list / repository.list_by_filters
\* ------------------------------------------------------------------------
\* icontains: both sides are compared in lower case
Lower(c) == IF c = "A" THEN "a" ELSE c
LowerStr(str) == [i \in 1..Len(str) |-> Lower(str[i])]
IContains(name, kw) ==
  \E i \in 0..(Len(name) - Len(kw)) :
    SubSeq(LowerStr(name), i + 1, i + Len(kw)) = LowerStr(kw)

\* the Tag rows of the tables of a listing: "a", "Ab", "b"
ListTagRows == << <<"a">>, <<"A", "b">>, <<"b">> >>

\* the tags of an entry: none, "a", "a" and "Ab", "b"
ListTagSets == {{}, {1}, {1, 2}, {3}}

\* the entries of the tables of a listing: owner and tags
ListEntries == [user_id : {1, 2}, tags : ListTagSets]

\* the tables holding the given entries, oldest first (the row of an entry
\* carries its user_id here)
ListedDb(entries) ==
  [EmptyDb EXCEPT
     !.diaries = [i \in 1..Len(entries) |->
                    [title |-> "t1", content |-> Body,
                     emotion_analysis_report |-> PyNone,
                     user_id |-> entries[i].user_id]],
     !.tagRows = ListTagRows,
     !.diaryTags = [i \in 1..Len(entries) |-> entries[i].tags],
     !.images = [i \in 1..Len(entries) |-> <<>>],
     !.seq = Len(entries)]

\* the filters and the page of a request: main_emotion, date_from and
\* date_to are None
ListFilters ==
  [user_id : {Omitted, Given(1)},
   tag_keyword : {Omitted, Given(<<"a">>)},
   page : 1..MaxPage,
   page_size : 1..MaxPageSize]

\* the diary_tag rows of entry d the filter tags__name__icontains joins
Matches(t, d, kw) == {g \in t.diaryTags[d] : IContains(t.tagRows[g], kw)}

\* the rows of the filtered query for entry d: none when a filter rejects
\* it, one when no tag filter joins the tags, and with the tag filter one
\* per matching diary_tag row (the query has no distinct())
JoinRowsOf(t, f, d) ==
  IF d \notin DiaryIds(t) THEN <<>>
  ELSE IF f.user_id.given /\ t.diaries[d].user_id # f.user_id.v THEN <<>>
  ELSE IF f.tag_keyword.given
       THEN [i \in 1..Cardinality(Matches(t, d, f.tag_keyword.v)) |-> d]
       ELSE <<d>>

\* base.order_by("-created_at", "-id"): the rows of the query, newest first
RECURSIVE JoinFrom(_, _, _)
JoinFrom(t, f, d) ==
  IF d = 0 THEN <<>> ELSE JoinRowsOf(t, f, d) \o JoinFrom(t, f, d - 1)

BaseRows(t, f) == JoinFrom(t, f, t.seq)

\* .offset(offset).limit(page_size).values_list("id", flat=True)
PageIds(rows, f) ==
  LET offset == (f.page - 1) * f.page_size
      last == IF offset + f.page_size < Len(rows) THEN offset + f.page_size
              ELSE Len(rows)
  IN SubSeq(rows, offset + 1, last)

\* Diary.filter(id__in=page_ids), sorted by order = {pid: i}: each entry
\* once, at the place of the last i of its id
PageRows(ids) ==
  LET keep == {i \in 1..Len(ids) : \A j \in (i + 1)..Len(ids) : ids[j] # ids[i]}
  IN [k \in 1..Cardinality(keep) |->
        ids[CHOOSE i \in keep : Cardinality({j \in keep : j <= i}) = k]]

\* a list request arrives
ListBegin(filters) ==
  /\ Free
  /\ \E f \in filters : req' = [Request("list", f, FALSE, 0) EXCEPT !.pc = "count"]
  /\ UNCHANGED <<db, tx, aiEnabled, calls, agg, nt>>

\* total = await base.count()
ListCount ==
  /\ req.op = "list" /\ req.pc = "count"
  /\ req' = [req EXCEPT !.pc = "page",
                        !.resp = [total |-> Len(BaseRows(db, req.payload)),
                                  page_ids |-> <<>>, items |-> <<>>]]
  /\ UNCHANGED <<db, tx, aiEnabled, calls, agg, nt>>

\* page_ids = await page_qs.values_list(...); if not page_ids: return [], total
ListPage ==
  /\ req.op = "list" /\ req.pc = "page"
  /\ LET ids == PageIds(BaseRows(db, req.payload), req.payload)
     IN req' = IF ids = <<>> THEN Finish(req, "ok", req.resp)
               ELSE [req EXCEPT !.pc = "rows", !.resp.page_ids = ids]
  /\ UNCHANGED <<db, tx, aiEnabled, calls, agg, nt>>

\* rows = await Diary.filter(id__in=page_ids)...; rows.sort(...); return rows, total
ListRows ==
  /\ req.op = "list" /\ req.pc = "rows"
  /\ req' = Finish(req, "ok",
                   [req.resp EXCEPT !.items =
                      PageRows(SelectSeq(req.resp.page_ids, LAMBDA d : d \in DiaryIds(db)))])
  /\ UNCHANGED <<db, tx, aiEnabled, calls, agg, nt>>

InitList ==
  /\ \E entries \in ListsUpTo(ListEntries, MaxListed) : db = ListedDb(entries)
  /\ tx = NoTx
  /\ req = Idle
  /\ aiEnabled = FALSE
  /\ calls = NoCalls
  /\ agg = NoAgg
  /\ nt = NoNt

NextList ==
  \/ ListBegin(ListFilters)
  \/ ListCount
  \/ ListPage
  \/ ListRows

SpecList == InitList /\ [][NextList]_vars

\* ------------------------------------------------------------------------
\* The API handlers update_diary and delete_diary over a shared database
\* ------------------------------------------------------------------------
\* update_diary: cur = await DiaryService.get(diary_id);
\* if not cur: raise HTTPException(status_code=404)
ApiUpdateBegin(payloads) ==
  /\ Free
  /\ \E d \in 1..db.seq, p \in payloads, ai \in ResolveAi :
       LET r == Request("update", p, ai, d)
       IN req' = IF d \notin DiaryIds(db) THEN Finish(r, "404", NoResp)
                 ELSE [r EXCEPT !.pc = "api_update"]
  /\ UNCHANGED <<db, tx, aiEnabled, calls, agg, nt>>

\* res = await DiaryService.update(cur, payload); return res. The service
\* reads the entry again; when it is gone it returns None, and None is not
\* a DiaryResponse: the validation of the response fails, status 500
ApiUpdateCall ==
  /\ req.op = "update" /\ req.pc = "api_update"
  /\ req' = IF req.id \notin DiaryIds(db)
            THEN Finish([req EXCEPT !.before = db], "500", NoResp)
            ELSE [req EXCEPT !.obj = get_by_id(db, req.id),
                             !.pc = IF req.payload.content.given /\ req.ai
                                    THEN "ai_call" ELSE "patch"]
  /\ UNCHANGED <<db, tx, aiEnabled, calls, agg, nt>>

\* delete_diary: cur = await DiaryService.get(diary_id);
\* if not cur: raise HTTPException(status_code=404)
ApiDeleteBegin ==
  /\ Free
  /\ \E d \in 1..db.seq :
       LET r == Request("delete", NoPayload, FALSE, d)
       IN req' = IF d \notin DiaryIds(db) THEN Finish(r, "404", NoResp)
                 ELSE [r EXCEPT !.pc = "api_delete"]
  /\ UNCHANGED <<db, tx, aiEnabled, calls, agg, nt>>

\* ok = await DiaryService.delete(diary_id); if not ok: raise 404
ApiDeleteCall ==
  /\ req.op = "delete" /\ req.pc = "api_delete"
  /\ IF req.id \in DiaryIds(db)
     THEN /\ db' = repository_delete(db, req.id)
          /\ req' = Finish(req, "ok", NoResp)
     ELSE /\ req' = Finish([req EXCEPT !.before = db], "404", NoResp)
          /\ UNCHANGED db
  /\ UNCHANGED <<tx, aiEnabled, calls, agg, nt>>

\* the delete of another client commits between the two reads of the handler
OtherDelete ==
  /\ req.pc \in {"api_update", "api_delete"}
  /\ req.id \in DiaryIds(db)
  /\ db' = repository_delete(db, req.id)
  /\ UNCHANGED <<tx, req, aiEnabled, calls, agg, nt>>

NextApi ==
  \/ NoUpdateYet /\ ApiUpdateBegin(UpdatePayloads)
  \/ ApiUpdateCall
  \/ ApiDeleteBegin
  \/ ApiDeleteCall
  \/ OtherDelete
  \/ AiSkip
  \/ \E label \in MainEmotionType : AiReturn(label)
  \/ AiRaise
  \/ \E label \in MainEmotionType : AiTimeout(label)
  \/ AiSave
  \/ AiSaveFail
  \/ \E applied \in BOOLEAN : AiSaveCancelled(applied)
  \/ UpdPatch
  \/ UpdTags
  \/ UpdImages
  \/ UpdFail
  \/ UpdRespond

SpecApi == InitUpdate /\ [][NextApi]_vars

\* ------------------------------------------------------------------------
\* Concurrent replace_tags / replace_images calls on one entry, each in its
\* own transaction, on PostgreSQL (core/config.py) at READ COMMITTED
\* ------------------------------------------------------------------------
\* the two calls
Callers == {1, 2}
Other(k) == 3 - k

\* a row version: xmin is the call that inserted it (0 once committed),
\* xmax the call that deleted it and has not ended (0 when none)
Version(id, table, val, order, xmin) ==
  [id |-> id, table |-> table, val |-> val, order |-> order, xmin |-> xmin,
   xmax |-> 0]

\* the row versions of the committed tables: the Tag rows, and the diary_tag
\* and Image rows of entry d
HeapOf(t, d) ==
  LET n == Len(t.tagRows)
  IN {Version(i, "tags", t.tagRows[i], 0, 0) : i \in 1..n}
     \cup {Version(n + g, "diary_tag", g, 0, 0) : g \in t.diaryTags[d]}
     \cup {Version(2 * n + i, "images", t.images[d][i].url, t.images[d][i].order, 0) :
             i \in 1..Len(t.images[d])}

\* the rows of a set in id order
SortById(S) ==
  [i \in 1..Cardinality(S) |->
     CHOOSE r \in S : Cardinality({q \in S : q.id <= r.id}) = i]

\* the committed tables a reader sees
View(t, d, h) ==
  LET rows(table) == {r \in h : r.table = table /\ r.xmin = 0}
      tg == SortById(rows("tags"))
      im == SortById(rows("images"))
      at(id) == CHOOSE i \in 1..Len(tg) : tg[i].id = id
  IN [t EXCEPT !.tagRows = [i \in 1..Len(tg) |-> tg[i].val],
               !.diaryTags[d] = {at(r.val) : r \in rows("diary_tag")},
               !.images[d] = [i \in 1..Len(im) |->
                                [url |-> im[i].val, order |-> im[i].order]]]

\* COMMIT of call k
Commit(h, k) ==
  {[r EXCEPT !.xmin = IF @ = k THEN 0 ELSE @] : r \in {q \in h : q.xmax # k}}

\* a faulty variant of Rollback: the rows the call deleted stay deleted
RollbackKeeping(h, k) == {r \in h : r.xmin # k /\ r.xmax # k}

\* ROLLBACK of call k: async with in_transaction() left by an exception
Rollback(h, k) ==
  {[r EXCEPT !.xmax = IF @ = k THEN 0 ELSE @] : r \in {q \in h : q.xmin # k}}

\* the rows a statement of call k sees: committed or its own, not deleted
\* by itself
Visible(h, k) == {r \in h : r.xmin \in {0, k} /\ r.xmax # k}

\* a faulty variant of UniqueName: tags.name without the unique constraint
UniqueNameNot(h, k, name) == "free"

\* Tag.name unique=True at an INSERT of call k: the name is free, or an
\* open transaction holds it (the INSERT waits), or it is taken
UniqueName(h, k, name) ==
  LET same == {r \in h : r.table = "tags" /\ r.val = name}
  IN IF \E r \in same : r.xmin = 0 THEN "taken"
     ELSE IF \E r \in same : r.xmin = Other(k) THEN "wait"
     ELSE "free"

\* Image unique_together (diary_id, order) at the bulk INSERT of n rows
UniqueOrder(h, k, n) ==
  LET same == {r \in h : r.table = "images" /\ r.order \in 1..n /\ r.xmax # k}
  IN IF \E r \in same : r.xmin = Other(k) \/ r.xmax = Other(k) THEN "wait"
     ELSE IF \E r \in same : r.xmin = 0 THEN "taken"
     ELSE "free"

NoCall ==
  [op |-> "none", pc |-> "idle", args |-> <<>>, todo |-> <<>>, bound |-> TRUE,
   snap |-> {}, found |-> 0]

Active(k) == calls.c[k].pc \notin {"idle", "done", "failed"}

\* the table the call replaces the rows of, and the step after its DELETE
TableOf(op) == IF op = "tags" THEN "diary_tag" ELSE "images"
AfterClear(op) == IF op = "tags" THEN "loop" ELSE "insert"

\* the argument lists of the calls
RaceTagLists == {<<>>, <<NameA>>, <<NameAA>>, <<NameA, NameAA>>}
RaceUrlLists == {<<>>, <<UrlU>>, <<UrlUU>>}

\* a call arrives: the list is normalized, the transaction begins
RaceBegin(k) ==
  /\ calls.c[k].pc = "idle"
  /\ \/ \E names \in RaceTagLists :
          calls' = [calls EXCEPT !.c[k] =
                      [NoCall EXCEPT !.op = "tags", !.pc = "delete", !.args = names,
                                     !.todo = CleanTags(names).cleaned,
                                     !.bound = CleanTags(names).bound]]
     \/ \E urls \in RaceUrlLists :
          calls' = [calls EXCEPT !.c[k] =
                      [NoCall EXCEPT !.op = "images", !.pc = "delete", !.args = urls,
                                     !.todo = NormUrls(urls)]]
  /\ UNCHANGED <<db, tx, req, aiEnabled, agg, nt>>

\* the rows with the given ids get xmax = k
Marked(h, ids, k) == {[r EXCEPT !.xmax = IF r.id \in ids THEN k ELSE @] : r \in h}

\* diary.tags.clear() / Image.filter(diary_id=...).delete(): the DELETE
\* takes the rows its snapshot shows; it waits when the other call has
\* deleted one of them and has not ended
ClearStart(k) ==
  /\ calls.c[k].pc = "delete"
  /\ LET me == calls.c[k]
         targets == {r \in Visible(calls.heap, k) : r.table = TableOf(me.op)}
         ids == {r.id : r \in targets}
     IN calls' = IF \E r \in targets : r.xmax = Other(k)
                 THEN [calls EXCEPT !.c[k].pc = "wait", !.c[k].snap = ids]
                 ELSE [calls EXCEPT !.heap = Marked(@, ids, k),
                                    !.c[k].pc = AfterClear(me.op)]
  /\ UNCHANGED <<db, tx, req, aiEnabled, agg, nt>>

\* the other call has ended: the DELETE goes on with the rows of its
\* snapshot that are still there; rows committed meanwhile are not in it
ClearResume(k) ==
  /\ calls.c[k].pc = "wait" /\ ~Active(Other(k))
  /\ LET me == calls.c[k]
         ids == {r.id : r \in {q \in calls.heap :
                                 q.id \in me.snap /\ q.xmin = 0 /\ q.xmax = 0}}
     IN calls' = [calls EXCEPT !.heap = Marked(@, ids, k),
                               !.c[k].pc = AfterClear(me.op), !.c[k].snap = {}]
  /\ UNCHANGED <<db, tx, req, aiEnabled, agg, nt>>

\* the exception leaves the call: its transaction is rolled back
Failing(k) ==
  /\ calls' = [calls EXCEPT !.heap = Rollback(@, k), !.c[k].pc = "failed"]
  /\ db' = View(db, calls.entry, Rollback(calls.heap, k))
  /\ UNCHANGED <<tx, req, aiEnabled, agg, nt>>

\* for name in cleaned: cleaned is unbound (no name was given), or the loop
\* is through, or Tag.get_or_create reads the Tag of the next name
TagSelect(k) ==
  /\ calls.c[k].pc = "loop"
  /\ LET me == calls.c[k]
     IN IF ~me.bound THEN Failing(k)
        ELSE /\ calls' =
                  IF me.todo = <<>> THEN [calls EXCEPT !.c[k].pc = "commit"]
                  ELSE LET got == {r \in Visible(calls.heap, k) :
                                     r.table = "tags" /\ r.val = Head(me.todo)}
                       IN IF got = {} THEN [calls EXCEPT !.c[k].pc = "create"]
                          ELSE [calls EXCEPT !.c[k].pc = "link",
                                             !.c[k].found = (CHOOSE r \in got : TRUE).id]
             /\ UNCHANGED <<db, tx, req, aiEnabled, agg, nt>>

\* Tag.get_or_create found no row: INSERT. IntegrityError aborts the
\* transaction of the call, and the read that follows fails in it
TagCreate(k) ==
  /\ calls.c[k].pc = "create"
  /\ LET u == UniqueName(calls.heap, k, Head(calls.c[k].todo))
         id == calls.seq + 1
     IN /\ u # "wait"
        /\ IF u = "taken" THEN Failing(k)
           ELSE /\ calls' = [calls EXCEPT
                               !.heap = @ \cup {Version(id, "tags", Head(calls.c[k].todo), 0, k)},
                               !.seq = id, !.c[k].pc = "link", !.c[k].found = id]
                /\ UNCHANGED <<db, tx, req, aiEnabled, agg, nt>>

\* diary.tags.add(tag): the link is inserted unless the call sees one; the
\* INSERT waits while the other call holds an uncommitted link of the pair
TagLink(k) ==
  /\ calls.c[k].pc = "link"
  /\ LET me == calls.c[k]
         same == {r \in calls.heap : r.table = "diary_tag" /\ r.val = me.found}
         id == calls.seq + 1
     IN /\ ~\E r \in same : r.xmin = Other(k)
        /\ calls' = IF \E r \in same : r \in Visible(calls.heap, k)
                    THEN [calls EXCEPT !.c[k].pc = "loop", !.c[k].todo = Tail(@)]
                    ELSE [calls EXCEPT
                            !.heap = @ \cup {Version(id, "diary_tag", me.found, 0, k)},
                            !.seq = id, !.c[k].pc = "loop", !.c[k].todo = Tail(@)]
  /\ UNCHANGED <<db, tx, req, aiEnabled, agg, nt>>

\* if norm: Image.bulk_create(rows)
ImgInsert(k) ==
  /\ calls.c[k].pc = "insert"
  /\ LET me == calls.c[k]
         n == Len(me.todo)
         u == UniqueOrder(calls.heap, k, n)
     IN IF n = 0
        THEN /\ calls' = [calls EXCEPT !.c[k].pc = "commit"]
             /\ UNCHANGED <<db, tx, req, aiEnabled, agg, nt>>
        ELSE /\ u # "wait"
             /\ IF u = "taken" THEN Failing(k)
                ELSE /\ calls' = [calls EXCEPT
                                    !.heap = @ \cup {Version(calls.seq + i, "images",
                                                             me.todo[i], i, k) : i \in 1..n},
                                    !.seq = @ + n, !.c[k].pc = "commit"]
                     /\ UNCHANGED <<db, tx, req, aiEnabled, agg, nt>>

\* leaving async with in_transaction(): COMMIT
CallCommit(k) ==
  /\ calls.c[k].pc = "commit"
  /\ calls' = [calls EXCEPT !.heap = Commit(@, k), !.c[k].pc = "done"]
  /\ db' = View(db, calls.entry, Commit(calls.heap, k))
  /\ UNCHANGED <<tx, req, aiEnabled, agg, nt>>

\* the database fails at a statement of the call (connection lost, deadlock
\* detected), or at its commit
CallFail(k) ==
  /\ Active(k)
  /\ Failing(k)

\* the entry the calls work on, with no tag or "a" and no image or "u"
RaceSeeds ==
  [title : {"t1"}, content : {Body}, tags : {<<>>, <<NameA>>},
   image_urls : {<<>>, <<UrlU>>}, emotion_analysis_report : {PyNone}]

InitRace ==
  /\ db \in {create_committed(EmptyDb, p) : p \in RaceSeeds}
  /\ tx = NoTx
  /\ req = Idle
  /\ aiEnabled = FALSE
  /\ agg = NoAgg
  /\ nt = NoNt
  /\ calls = [heap |-> HeapOf(db, db.seq),
              seq |-> 2 * Len(db.tagRows) + Len(db.images[db.seq]),
              c |-> [k \in Callers |-> NoCall], entry |-> db.seq, base |-> db]

NextRace ==
  \/ \E k \in Callers : RaceBegin(k)
  \/ \E k \in Callers : ClearStart(k)
  \/ \E k \in Callers : ClearResume(k)
  \/ \E k \in Callers : TagSelect(k)
  \/ \E k \in Callers : TagCreate(k)
  \/ \E k \in Callers : TagLink(k)
  \/ \E k \in Callers : ImgInsert(k)
  \/ \E k \in Callers : CallCommit(k)
  \/ \E k \in Callers : CallFail(k)

SpecRace == InitRace /\ [][NextRace]_vars

\* ------------------------------------------------------------------------
\* Notification settings: UserService.signup and
\* UserService.update_notification_settings, run by the callers next to the
\* targeting runs.  The id of a UserNotification row is its place in
\* nt.assigns; a deleted row keeps its place with user 0.
\* ------------------------------------------------------------------------
\* a call of update_notification_settings that has not begun
NoSetting ==
  [pc |-> "idle", user |-> 0, receive |-> FALSE, type |-> "none", notif |-> 0,
   row |-> 0, status |-> "none"]

\* notification_type of the requests: None, a word outside the enum, a
\* channel without Notification rows, two channels with rows
SettingTypes == {"none", "FAX", "PUSH", "SMS", "EMAIL"}

Deleted == [user |-> 0, notification |-> 0]

\* unique_together (user, notification): a row other than row holds the pair
PairTaken(assigns, u, notif, row) ==
  \E j \in 1..Len(assigns) :
    j # row /\ assigns[j].user = u /\ assigns[j].notification = notif

\* the call ends with an HTTPException or an exception of the ORM
SettingsRaise(k, status) ==
  calls' = [calls EXCEPT !.c[k].pc = "done", !.c[k].status = status]

\* signup(payload): the user and the UserNotification row are written in one
\* transaction, which an HTTPException rolls back
signup ==
  /\ Len(nt.users) < MaxUsers
  /\ \E receive \in BOOLEAN, type \in SettingTypes :
       LET u == Len(nt.users) + 1
           found == MasterOf(nt, type)
           user == [receive_notifications |-> receive]
       IN IF ~(receive /\ type # "none")
          THEN nt' = [nt EXCEPT !.users = Append(@, user), !.stats = Append(@, <<>>)]
          ELSE /\ type \in NotificationType
               /\ found # {}
               /\ nt' = [nt EXCEPT
                           !.users = Append(@, user), !.stats = Append(@, <<>>),
                           !.assigns = Append(@, [user |-> u,
                                                  notification |-> CHOOSE x \in found : TRUE])]
  /\ UNCHANGED <<db, tx, req, aiEnabled, calls, agg>>

\* update_notification_settings(current_user, notification_type, receive) up
\* to its first statement: steps 2 and 3 raise 400
SettingsBegin(k) ==
  /\ calls.c[k].pc = "idle"
  /\ \E u \in 1..Len(nt.users), receive \in BOOLEAN, type \in SettingTypes :
       /\ receive \/ type = "none"
       /\ LET me == [NoSetting EXCEPT !.user = u, !.receive = receive, !.type = type]
          IN calls' = [calls EXCEPT !.c[k] =
               IF ~receive THEN [me EXCEPT !.pc = "off"]
               ELSE IF type = "none" \/ type \notin NotificationType
                    THEN [me EXCEPT !.pc = "done", !.status = "400"]
                    ELSE [me EXCEPT !.pc = "find"]]
  /\ UNCHANGED <<db, tx, req, aiEnabled, agg, nt>>

\* await UserNotification.filter(user_id=current_user.id).delete()
SettingsOff(k) ==
  /\ calls.c[k].pc = "off"
  /\ nt' = [nt EXCEPT !.assigns =
              [j \in 1..Len(@) |-> IF @[j].user = calls.c[k].user THEN Deleted ELSE @[j]]]
  /\ calls' = [calls EXCEPT !.c[k].pc = "save"]
  /\ UNCHANGED <<db, tx, req, aiEnabled, agg>>

\* notif = await Notification.get_or_none(weekday=weekday, notification_type=...)
SettingsFind(k) ==
  /\ calls.c[k].pc = "find"
  /\ LET found == MasterOf(nt, calls.c[k].type)
     IN IF found = {} THEN SettingsRaise(k, "500")
        ELSE calls' = [calls EXCEPT !.c[k].pc = "look",
                                    !.c[k].notif = CHOOSE x \in found : TRUE]
  /\ UNCHANGED <<db, tx, req, aiEnabled, agg, nt>>

\* user_notif = await UserNotification.get_or_none(user_id=current_user.id)
SettingsLook(k) ==
  /\ calls.c[k].pc = "look"
  /\ LET rows == AssignsOf(nt, calls.c[k].user)
     IN IF Cardinality(rows) > 1 THEN SettingsRaise(k, "error")
        ELSE IF rows = {} THEN calls' = [calls EXCEPT !.c[k].pc = "create"]
        ELSE calls' = [calls EXCEPT !.c[k].pc = "update",
                                    !.c[k].row = CHOOSE x \in rows : TRUE]
  /\ UNCHANGED <<db, tx, req, aiEnabled, agg, nt>>

\* user_notif.notification = notif; await user_notif.save(): an UPDATE by
\* primary key, which changes nothing when the row has been deleted
SettingsUpdate(k) ==
  /\ calls.c[k].pc = "update"
  /\ LET me == calls.c[k]
     IN IF nt.assigns[me.row] = Deleted
        THEN /\ calls' = [calls EXCEPT !.c[k].pc = "save"]
             /\ UNCHANGED nt
        ELSE IF PairTaken(nt.assigns, me.user, me.notif, me.row)
        THEN /\ SettingsRaise(k, "error")
             /\ UNCHANGED nt
        ELSE /\ calls' = [calls EXCEPT !.c[k].pc = "save"]
             /\ nt' = [nt EXCEPT !.assigns[me.row].notification = me.notif]
  /\ UNCHANGED <<db, tx, req, aiEnabled, agg>>

\* created = await UserNotification.create(user=current_user, notification=notif)
SettingsCreate(k) ==
  /\ calls.c[k].pc = "create"
  /\ LET me == calls.c[k]
     IN IF PairTaken(nt.assigns, me.user, me.notif, 0)
        THEN /\ SettingsRaise(k, "error")
             /\ UNCHANGED nt
        ELSE /\ calls' = [calls EXCEPT !.c[k].pc = "save"]
             /\ nt' = [nt EXCEPT !.assigns =
                         Append(@, [user |-> me.user, notification |-> me.notif])]
  /\ UNCHANGED <<db, tx, req, aiEnabled, agg>>

\* current_user.receive_notifications = ...; await current_user.save()
SettingsSave(k) ==
  /\ calls.c[k].pc = "save"
  /\ nt' = [nt EXCEPT !.users[calls.c[k].user].receive_notifications = calls.c[k].receive]
  /\ calls' = [calls EXCEPT !.c[k].pc = "done", !.c[k].status = "ok"]
  /\ UNCHANGED <<db, tx, req, aiEnabled, agg>>

\* the statistics rows of a user before the calls
SettingStats == ListsUpTo({StatRow(NEGATIVE, Threshold, TRUE)}, MaxStatRows)

InitSettings ==
  /\ \E master \in {SeededMaster, OtherDayMaster} :
       \E n \in 0..MaxUsers :
         \E setups \in ListsOfLen([receive_notifications : BOOLEAN,
                                   stats : SettingStats,
                                   assigned : {0} \cup (1..Len(master))], n) :
           nt = [NoNt EXCEPT
                   !.master = master,
                   !.users = [u \in 1..n |->
                                [receive_notifications |-> setups[u].receive_notifications]],
                   !.stats = [u \in 1..n |-> setups[u].stats],
                   !.assigns = AssignRows(setups, 1),
                   !.before = AssignRows(setups, 1)]
  /\ db = EmptyDb
  /\ tx = NoTx
  /\ req = Idle
  /\ aiEnabled = FALSE
  /\ calls = [NoCalls EXCEPT !.c = [k \in Callers |-> NoSetting]]
  /\ agg = NoAgg

NextSettings ==
  \/ signup
  \/ \E k \in Callers : SettingsBegin(k)
  \/ \E k \in Callers : SettingsOff(k)
  \/ \E k \in Callers : SettingsFind(k)
  \/ \E k \in Callers : SettingsLook(k)
  \/ \E k \in Callers : SettingsUpdate(k)
  \/ \E k \in Callers : SettingsCreate(k)
  \/ \E k \in Callers : SettingsSave(k)
  \/ TargetsBegin
  \/ TargetsUser
  \/ TargetsReturn

SpecSettings == InitSettings /\ [][NextSettings]_vars

\* ------------------------------------------------------------------------
\* DiaryService.add_tags_to_diary, DiaryService.remove_tags_from_diary
\* ------------------------------------------------------------------------
\* tag_names of the requests
EntryNames == ListsUpTo({NameA, NameAA, Padded(NameA)}, MaxTags)

\* list(a set): the elements once each, in an order the set decides
Orders(S) == {l \in [1..Cardinality(S) -> S] : Range(l) = S}

\* [to_tag_response(tag) for tag in updated_diary.tags]
TagResponses(t, d) == [id |-> d, tags |-> ReadTags(t, d)]

\* repository.replace_tags(diary, names) and the read of the updated entry;
\* an exception of replace_tags leaves the handler
Retag(r, names) ==
  LET out == replace_tags(db, r.id, names)
  IN /\ db' = out.db
     /\ req' = IF out.ok THEN Finish(r, "ok", TagResponses(out.db, r.id))
               ELSE Finish(r, "error", NoResp)

\* add_tags_to_diary(diary_id, tag_names)
add_tags_to_diary ==
  /\ Free
  /\ \E d \in 1..db.seq, tag_names \in EntryNames :
       LET r == Request("add_tags", tag_names, FALSE, d)
       IN IF d \notin DiaryIds(db)
          THEN /\ req' = Finish(r, "not_found", NoResp)
               /\ UNCHANGED db
          ELSE \E all_tag_names \in Orders(Range(get_by_id(db, d).tags) \cup Range(tag_names)) :
                 Retag(r, all_tag_names)
  /\ UNCHANGED <<tx, aiEnabled, calls, agg, nt>>

\* remove_tags_from_diary(diary_id, tag_names)
remove_tags_from_diary ==
  /\ Free
  /\ \E d \in 1..db.seq, tag_names \in EntryNames :
       LET r == Request("remove_tags", tag_names, FALSE, d)
       IN IF d \notin DiaryIds(db)
          THEN /\ req' = Finish(r, "not_found", NoResp)
               /\ UNCHANGED db
          ELSE \E remaining_tag_names \in
                    Orders(Range(get_by_id(db, d).tags) \ Range(tag_names)) :
                 Retag(r, remaining_tag_names)
  /\ UNCHANGED <<tx, aiEnabled, calls, agg, nt>>

InitTags ==
  /\ db \in {create_committed(EmptyDb, p) : p \in SeedPayloads}
  /\ tx = NoTx
  /\ req = Idle
  /\ aiEnabled = FALSE
  /\ calls = NoCalls
  /\ agg = NoAgg
  /\ nt = NoNt

NextTags ==
  \/ add_tags_to_diary
  \/ remove_tags_from_diary
  \/ Get
  \/ Delete

SpecTags == InitTags /\ [][NextTags]_vars

\* ------------------------------------------------------------------------
\* Expected values, stated without the definitions of the repository
\* ------------------------------------------------------------------------
CreateDone == req.op = "create" /\ req.pc = "done"
UpdateDone == req.op = "update" /\ req.pc = "done"

\* trimmed, empty dropped, first occurrences kept, input order
TrimDedupe(l) == Dedupe(SelectSeq(MapStrip(l), NonEmpty))

\* the pieces of s between commas
PieceSet(s) ==
  {SubSeq(s, i, j) : <<i, j>> \in
     {<<i, j>> \in (1..(Len(s) + 1)) \X (0..Len(s)) :
        /\ j >= i - 1
        /\ i = 1 \/ s[i - 1] = ","
        /\ j = Len(s) \/ s[j + 1] = ","
        /\ \A k \in i..j : s[k] # ","}}

\* the trimmed, non-empty pieces of all the names
ExpectedTagNames(names) ==
  {Strip(x) : x \in UNION {PieceSet(names[i]) : i \in 1..Len(names)}} \ {<<>>}

IsAscending(l) == \A i \in 1..(Len(l) - 1) : NameLess(l[i], l[i + 1])

\* rows 1..N of the surviving URLs
ExpectedImages(urls) ==
  LET x == TrimDedupe(urls) IN [i \in 1..Len(x) |-> [url |-> x[i], order |-> i]]

DistinctOrders(rows) ==
  \A i, j \in 1..Len(rows) : i # j => rows[i].order # rows[j].order

\* ------------------------------------------------------------------------
\* C1
\* ------------------------------------------------------------------------
\* C1 as stated: the tag list returned by a successful create equals the
\* input list trimmed, without empty names and without repeats, in input
\* order, and no name is split.
C1_AsStated ==
  (CreateDone /\ req.status = "ok") => req.resp.tags = TrimDedupe(req.payload.tags)

\* C1 (amended): the tag list returned by a successful create holds exactly
\* the trimmed, non-empty pieces obtained by splitting every input name at
\* its commas, each once, in ascending order of name.
C1_ReturnedTags ==
  (CreateDone /\ req.status = "ok") =>
    /\ IsAscending(req.resp.tags)
    /\ Range(req.resp.tags) = ExpectedTagNames(req.payload.tags)

\* a create returned two tags that came out of one input name with a comma
C1_Witness ==
  /\ CreateDone /\ req.status = "ok"
  /\ Len(req.payload.tags) = 1
  /\ "," \in Range(req.payload.tags[1])
  /\ Len(req.resp.tags) = 2

\* ------------------------------------------------------------------------
\* C2
\* ------------------------------------------------------------------------
\* C2: after a create or update that supplies image URLs the stored images
\* of the entry are the trimmed, non-empty, de-duplicated URLs in input order
\* with order values 1..N; in every state, committed or inside a transaction,
\* no two images of one entry share an order value.
C2_Images ==
  /\ (CreateDone /\ req.status = "ok" /\ req.payload.image_urls # <<>>) =>
       db.images[req.id] = ExpectedImages(req.payload.image_urls)
  /\ (UpdateDone /\ req.status = "ok" /\ req.payload.image_urls.given) =>
       db.images[req.id] = ExpectedImages(req.payload.image_urls.v)
  /\ \A d \in DiaryIds(db) : DistinctOrders(db.images[d])
  /\ tx.open => \A d \in DiaryIds(tx.t) : DistinctOrders(tx.t.images[d])

\* an update replaced two stored images by the one survivor of a padded,
\* repeated URL
C2_Witness ==
  /\ UpdateDone /\ req.status = "ok" /\ req.payload.image_urls.given
  /\ Len(req.payload.image_urls.v) = 2
  /\ Len(req.before.images[req.id]) = 2
  /\ Len(db.images[req.id]) = 1

\* ------------------------------------------------------------------------
\* C3
\* ------------------------------------------------------------------------
\* C3: an update with tags = [] of an existing entry, the database working,
\* completes without error and leaves the entry without tag associations.
C3_EmptyTags ==
  (UpdateDone /\ req.payload.tags = Given(<<>>) /\ req.status \notin {"none", "db_error"}) =>
    req.status = "ok" /\ db.diaryTags[req.id] = {}

\* ------------------------------------------------------------------------
\* C4
\* ------------------------------------------------------------------------
\* C4: when the enrichment call of a create raises or exceeds its deadline,
\* create returns the entry, the committed entry with its tags and images
\* stays, and the stored report of the entry is null.
C4_EnrichmentFailure ==
  (CreateDone /\ req.enrich \in {"raised", "timeout"}) =>
    /\ req.status = "ok"
    /\ req.id \in DiaryIds(db)
    /\ db.diaryTags[req.id] = create_committed(req.before, req.payload).diaryTags[req.id]
    /\ db.images[req.id] = create_committed(req.before, req.payload).images[req.id]
    /\ db.diaries[req.id].emotion_analysis_report = PyNone

\* ------------------------------------------------------------------------
\* C5
\* ------------------------------------------------------------------------
\* what any reader gets for entry d from the committed tables
ReaderView(d) == to_diary_response(get_by_id(db, d))

\* C5: while the create transaction is open the committed tables are those
\* of before the create; after a failure inside it they still are; and an
\* entry of a create that a reader can see carries all the tags and images
\* that were requested.
C5_AllOrNothing ==
  /\ (req.op = "create" /\ tx.open) => db = req.before
  /\ (CreateDone /\ req.status = "db_error") => db = req.before
  /\ (req.op = "create" /\ req.id \in DiaryIds(db)) =>
       /\ Range(ReaderView(req.id).tags) = ExpectedTagNames(req.payload.tags)
       /\ ReaderView(req.id).image_urls = ExpectedImages(req.payload.image_urls)

\* a create failed after its entry row and tag links had been written
C5_Witness ==
  /\ CreateDone /\ req.status = "db_error"
  /\ req.id # 0
  /\ req.payload.tags # <<>>
  /\ req.payload.image_urls # <<>>
  /\ db = req.before

\* ------------------------------------------------------------------------
\* C6
\* ------------------------------------------------------------------------
\* C6: a create whose body has at most 10 characters is rejected with a
\* validation error and nothing of it is written.
C6_ShortBody ==
  (CreateDone /\ req.payload.content.txt <= MinContentLen /\ req.status # "db_error") =>
    req.status = "422" /\ db = req.before

C8_Frame ==
  (req.op = "update" /\ req.status # "none" /\ req.pc # "idle") =>
    /\ ~req.payload.tags.given =>
         get_by_id(db, req.id).tags = get_by_id(req.before, req.id).tags
    /\ ~req.payload.image_urls.given =>
         db.images[req.id] = req.before.images[req.id]
    /\ ~req.payload.title.given =>
         db.diaries[req.id].title = req.before.diaries[req.id].title
    /\ ~req.payload.content.given =>
         db.diaries[req.id].content = req.before.diaries[req.id].content
    /\ (req.pc = "done" /\ req.status = "ok" /\ req.payload.image_urls = Given(<<>>)) =>
         db.images[req.id] = <<>>

\* an update that gave only a title left the tags and images of the entry,
\* and one that gave an empty image list removed the images
C8_Witness ==
  /\ UpdateDone /\ req.status = "ok"
  /\ req.payload.title.given
  /\ ~req.payload.tags.given /\ ~req.payload.image_urls.given
  /\ ~req.payload.content.given
  /\ db.diaryTags[req.id] # {} /\ db.images[req.id] # <<>>
  /\ db.diaries[req.id].title # req.before.diaries[req.id].title

\* ------------------------------------------------------------------------
\* C9
\* ------------------------------------------------------------------------
StatsDone == agg.pc = "done"

\* the number of rows that stand for the label
StandingFor(label) == Cardinality({i \in DOMAIN agg.stands : agg.stands[i] = label})

Counted(label) == IF label \in DOMAIN agg.counter THEN agg.counter[label] ELSE 0

\* C9: an aggregation over rows whose labels are all valid returns, and the
\* count of every label is the number of rows that carry it as main_emotion
\* of a structured report, of a JSON string of one, or of the nested
\* emotion_analysis object only; a row without a report, with text that is
\* not JSON or with a JSON value that is not an object counts for nothing,
\* so the counts never add up to more than the number of rows.
C9_Counts ==
  StatsDone =>
    /\ agg.status = "ok" <=> StandingFor("invalid") = 0
    /\ agg.status = "ok" =>
         /\ \A label \in MainEmotionType : Counted(label) = StandingFor(label)
         /\ DOMAIN agg.counter \subseteq MainEmotionType
         /\ Counted(POSITIVE) + Counted(NEGATIVE) + Counted(NEUTRAL) <= Len(agg.rows)

\* an aggregation counted a JSON-string report and a nested one under the
\* same label
C9_Witness ==
  /\ StatsDone /\ agg.status = "ok"
  /\ Len(agg.rows) = 2
  /\ agg.rows[1].emotion_analysis_report = PyStr(Dumps(Labelled(NEGATIVE)))
  /\ agg.rows[2].emotion_analysis_report = Nested(NEGATIVE)
  /\ Counted(NEGATIVE) = 2

\* ------------------------------------------------------------------------
\* C10
\* ------------------------------------------------------------------------
TargetsDone == nt.pc = "done"

TargetUsers == {nt.targets[k].user : k \in 1..Len(nt.targets)}

\* the user has a weekly negative statistic of today with frequency >= 5
Qualifies(u) ==
  \E k \in 1..Len(nt.stats[u]) :
    /\ nt.stats[u][k].period_type = "weekly" /\ nt.stats[u][k].today
    /\ nt.stats[u][k].emotion_type = NEGATIVE
    /\ nt.stats[u][k].frequency >= Threshold

\* C10: a targeting run that returns emits a user as a target if and only if
\* the user has notifications enabled and the user's weekly negative
\* statistic (the one of today, which the run reads) has frequency >= 5.
C10_Targets ==
  (TargetsDone /\ nt.status = "ok") =>
    \A u \in 1..Len(nt.users) :
      u \in TargetUsers <=> (nt.users[u].receive_notifications /\ Qualifies(u))

\* ------------------------------------------------------------------------
\* C11
\* ------------------------------------------------------------------------
\* the places of the assignment rows of user u in a table of such rows
RowsOf(assigns, u) == {k \in 1..Len(assigns) : assigns[k].user = u}

\* every target of the run was assigned its definition before the run began
SameResolution ==
  \A j \in 1..Len(nt.targets) :
    \E k \in RowsOf(nt.before, nt.targets[j].user) :
      nt.before[k].notification = nt.targets[j].notification

\* C11: after every targeting run of a day each user the run returns as a
\* target has exactly one assignment row; no run, the first or a repeated
\* one, adds a row to the table; and a run that resolves for every target
\* the definition it was assigned already leaves the table as it was.
C11_OneRow ==
  /\ (TargetsDone /\ nt.status = "ok") =>
       \A u \in TargetUsers : Cardinality(RowsOf(nt.assigns, u)) = 1
  /\ Len(nt.assigns) = Len(nt.before)
  /\ (TargetsDone /\ nt.status = "ok" /\ SameResolution) => nt.assigns = nt.before

\* a second run of the day returned a target and left the table as the
\* first run had written it
C11_Witness ==
  /\ TargetsDone /\ nt.status = "ok"
  /\ nt.runs = 2
  /\ TargetUsers # {}
  /\ SameResolution
  /\ nt.assigns = nt.before

\* ------------------------------------------------------------------------
\* C12
\* ------------------------------------------------------------------------
\* C12: after a targeting run that returns, every user with notifications
\* enabled and a weekly negative frequency >= 5 has an assignment that points
\* at a definition of today's weekday, created by the run when the user had
\* none.
C12_Upsert ==
  (TargetsDone /\ nt.status = "ok") =>
    \A u \in 1..Len(nt.users) :
      (nt.users[u].receive_notifications /\ Qualifies(u)) =>
        \E k \in RowsOf(nt.assigns, u) :
          nt.master[nt.assigns[k].notification].weekday = "today"

\* ------------------------------------------------------------------------
\* C13
\* ------------------------------------------------------------------------
\* the run took up user u: u is one of the first nt.i enabled users
TakenUp(u) == \E j \in 1..Len(nt.queue) : j <= nt.i /\ nt.queue[j] = u

\* exactly one weekly negative statistic of today, with frequency >= 5
IsTarget(u) ==
  LET m == {k \in 1..Len(nt.stats[u]) :
              /\ nt.stats[u][k].period_type = "weekly" /\ nt.stats[u][k].today
              /\ nt.stats[u][k].emotion_type = NEGATIVE}
  IN /\ Cardinality(m) = 1
     /\ \A k \in m : nt.stats[u][k].frequency >= Threshold

\* u has one assignment and the catalogue has no definition of today's
\* weekday for the channel of that assignment
LacksDefinition(u) ==
  /\ Cardinality(RowsOf(nt.assigns, u)) = 1
  /\ \A k \in RowsOf(nt.assigns, u) :
       ~\E d \in 1..Len(nt.master) :
          /\ nt.master[d].weekday = "today"
          /\ nt.master[d].notification_type =
               nt.master[nt.assigns[k].notification].notification_type

\* C13: a targeting run that has taken up a target user whose channel has no
\* definition for today's weekday has failed with the error 500 and returns
\* no target; it never goes on past that user.
C13_Surfaced ==
  TargetsDone =>
    \A u \in 1..Len(nt.users) :
      (TakenUp(u) /\ IsTarget(u) /\ LacksDefinition(u)) =>
        /\ nt.status = "500"
        /\ nt.targets = <<>>
        /\ nt.queue[nt.i] = u

\* a run failed with 500 at a target whose channel has no definition today
C13_Witness ==
  /\ TargetsDone /\ nt.status = "500"
  /\ nt.targets = <<>>
  /\ IsTarget(nt.queue[nt.i]) /\ LacksDefinition(nt.queue[nt.i])

\* ------------------------------------------------------------------------
\* C14
\* ------------------------------------------------------------------------
SendDone == nt.pc = "done" /\ nt.status # "none"

C15_SentAreDelivered ==
  (SendDone /\ nt.status = "ok") =>
    Range(nt.sent) = {nt.log[k].user : k \in {j \in 1..Len(nt.log) : nt.log[j].delivered}}

\* ------------------------------------------------------------------------
\* C16
\* ------------------------------------------------------------------------
\* the number of definitions of the pair in the catalogue
Definitions(w, c) ==
  Cardinality({k \in 1..Len(nt.master) :
                 nt.master[k].weekday = w /\ nt.master[k].notification_type = c})

\* C16: after a run of seed_notifications that returned, the first or a
\* later one, the catalogue holds exactly one definition for every pair of
\* a weekday 0..6 and a channel; and in every state no pair has two.
C16_Catalogue ==
  /\ \A w \in 0..6, c \in {"PUSH", "EMAIL", "SMS"} : Definitions(w, c) <= 1
  /\ (nt.pc = "done" /\ nt.status \in {"ok", "skipped"}) =>
       \A w \in 0..6, c \in {"PUSH", "EMAIL", "SMS"} : Definitions(w, c) = 1

\* ------------------------------------------------------------------------
\* C17
\* ------------------------------------------------------------------------
\* the enrichment block of a create is running or has run
Enriching ==
  /\ req.op = "create"
  /\ req.pc \in {"ai_call", "ai_save"} \/ req.enrich # "none"

\* C17: whenever the enrichment call of a create is about to start, is
\* running or has run, the transaction of the create is closed and the
\* entry, its tags and its images are in the committed tables as the
\* create wrote them; when the call starts the committed tables are exactly
\* those of the committed create.
C17_AfterCommit ==
  Enriching =>
    LET c == create_committed(req.before, req.payload)
    IN /\ ~tx.open
       /\ req.id \in DiaryIds(db)
       /\ db.diaryTags = c.diaryTags /\ db.tagRows = c.tagRows
       /\ db.images = c.images
       /\ req.pc = "ai_call" => db = c

\* C17 witness: the call of a create with tags and images is about to start
C17_Witness ==
  /\ req.op = "create" /\ req.pc = "ai_call"
  /\ req.payload.tags # <<>> /\ req.payload.image_urls # <<>>
  /\ db.diaryTags[req.id] # {} /\ db.images[req.id] # <<>>

\* ------------------------------------------------------------------------
\* C18
\* ------------------------------------------------------------------------
\* C18: no write of the sentiment fields is started once the deadline has
\* passed, no write is interrupted by the deadline, and after a call that
\* outran the deadline the stored payload is the one the create committed.
C18_WithinBudget ==
  req.op = "create" =>
    /\ ~(req.pc = "ai_save" /\ req.enrich = "timeout")
    /\ req.enrich # "save_cancelled"
    /\ req.enrich = "timeout" =>
         db.diaries[req.id].emotion_analysis_report =
           StoredReport(req.payload.emotion_analysis_report)

\* ------------------------------------------------------------------------
\* C19
\* ------------------------------------------------------------------------
\* the payload is null or a JSON object in every row of the tables
ObjectOrNull(t) ==
  \A d \in DiaryIds(t) : t.diaries[d].emotion_analysis_report.kind \in {"none", "dict"}

Supplied == req.payload.emotion_analysis_report.kind = "dict"

\* C20: a create with a body of valid length that supplies an object as
\* payload never reaches the enrichment call, and when it ends normally the
\* entry holds exactly that payload; the call is reached only with
\* enrichment enabled and no payload supplied.
C20_SuppliedPayload ==
  req.op = "create" =>
    /\ Enriching => req.ai /\ ~Supplied
    /\ (Supplied /\ req.pc = "done" /\ req.status = "ok") =>
         db.diaries[req.id].emotion_analysis_report = req.payload.emotion_analysis_report

\* ------------------------------------------------------------------------
\* C21
\* ------------------------------------------------------------------------
\* the entries the filters of the request select
Selected(t, f) ==
  {d \in DiaryIds(t) :
     /\ f.user_id.given => t.diaries[d].user_id = f.user_id.v
     /\ f.tag_keyword.given => Matches(t, d, f.tag_keyword.v) # {}}

\* min(s, max(0, total - (p - 1) * s))
PageLen(total, f) ==
  LET rest == IF total - (f.page - 1) * f.page_size > 0
              THEN total - (f.page - 1) * f.page_size ELSE 0
  IN IF f.page_size < rest THEN f.page_size ELSE rest

\* C21: a listing that has returned reports as total the number of entries
\* the filters select, and returns min(s, max(0, total - (p-1)*s)) items.
C21_Page ==
  (req.op = "list" /\ req.pc = "done") =>
    /\ req.resp.total = Cardinality(Selected(db, req.payload))
    /\ Len(req.resp.items) = PageLen(req.resp.total, req.payload)

\* ------------------------------------------------------------------------
\* C22
\* ------------------------------------------------------------------------
\* C22: an update or a delete that found no entry (the entry was not in the
\* tables when the handler or the service looked for it) is answered 404,
\* has changed no row and has called no enrichment.
C22_NotFound ==
  (/\ req.op \in {"update", "delete"} /\ req.pc = "done"
   /\ req.id \notin DiaryIds(req.before)) =>
    /\ req.status = "404"
    /\ db = req.before
    /\ req.enrich = "none" /\ ~req.ai_result.got

\* ------------------------------------------------------------------------
\* C23
\* ------------------------------------------------------------------------
\* the collection of the entry is the normalized list of call k
IsListOf(k) ==
  IF calls.c[k].op = "tags"
  THEN ReadTags(db, calls.entry) = SortNames(Range(CleanTags(calls.c[k].args).cleaned))
  ELSE ReadImages(db, calls.entry) = ImageRows(NormUrls(calls.c[k].args))

\* C23: when two calls of the same kind on the entry have both completed,
\* the collection of the entry is the normalized list of one of them.
C23_LastWriterWins ==
  (/\ \A k \in Callers : calls.c[k].pc = "done"
   /\ calls.c[1].op = calls.c[2].op) =>
    \E k \in Callers : IsListOf(k)

\* ------------------------------------------------------------------------
\* C24
\* ------------------------------------------------------------------------
\* the Tag rows, committed or not
TagVersions == {r \in calls.heap : r.table = "tags"}

\* C24: in every state no two Tag rows share a name, every Tag row there
\* was at the start is still there under its id, and a call that goes on to
\* link a Tag holds the row of the name it asked for.
C24_UniqueNames ==
  /\ \A r, q \in TagVersions : r.id # q.id => r.val # q.val
  /\ \A i, j \in 1..Len(db.tagRows) : i # j => db.tagRows[i] # db.tagRows[j]
  /\ Len(calls.base.tagRows) <= Len(db.tagRows)
  /\ \A i \in 1..Len(calls.base.tagRows) : db.tagRows[i] = calls.base.tagRows[i]
  /\ \A k \in DOMAIN calls.c :
       calls.c[k].pc = "link" =>
         \E r \in TagVersions : r.id = calls.c[k].found /\ r.val = Head(calls.c[k].todo)

\* C24 witness: a call is about to insert a Tag whose name the other call
\* has inserted and not yet committed
C24_Witness ==
  \E k \in DOMAIN calls.c :
    /\ calls.c[k].pc = "create"
    /\ \E r \in TagVersions : r.val = Head(calls.c[k].todo) /\ r.xmin = Other(k)

\* ------------------------------------------------------------------------
\* C25
\* ------------------------------------------------------------------------
\* C25: as long as no call has committed, the committed tables are those of
\* the start, whatever the calls have deleted and inserted and however they
\* failed; a failed call leaves no row version of its own.
C25_Atomic ==
  /\ (\A k \in DOMAIN calls.c : calls.c[k].pc # "done") => db = calls.base
  /\ \A k \in DOMAIN calls.c :
       calls.c[k].pc = "failed" => \A r \in calls.heap : r.xmin # k /\ r.xmax # k

\* C25 witness: replace_tags with no name has failed after its clear on an
\* entry that has a tag, and the entry has the tag still
C25_Witness ==
  \E k \in DOMAIN calls.c :
    /\ calls.c[k].pc = "failed" /\ calls.c[k].op = "tags" /\ ~calls.c[k].bound
    /\ calls.c[Other(k)].pc = "idle"
    /\ calls.base.diaryTags[calls.entry] # {}
    /\ db = calls.base

\* ------------------------------------------------------------------------
\* C26
\* ------------------------------------------------------------------------
\* C26: every aggregation returns a mapping, whatever the stored reports
\* hold: its keys are among the three labels, and a row whose label is
\* missing, empty or not a label is left out of the counts.
C26_AlwaysReturns ==
  (agg.pc = "done") =>
    /\ agg.status = "ok"
    /\ DOMAIN agg.counter \subseteq MainEmotionType
    /\ \A label \in MainEmotionType : Counted(label) = StandingFor(label)

\* ------------------------------------------------------------------------
\* C27
\* ------------------------------------------------------------------------
\* C27: in every reachable state each user has at most one UserNotification
\* row, under every interleaving of signup, update_notification_settings
\* and targeting runs.
C27_OnePerUser ==
  \A u \in 1..Len(nt.users) : Cardinality(AssignsOf(nt, u)) <= 1

\* ------------------------------------------------------------------------
\* C28
\* ------------------------------------------------------------------------
\* C28: when the response of a create or an update carries a report, the
\* stored report of the entry is that report when the operation returns.
C28_ResponseIsStored ==
  ((CreateDone \/ UpdateDone) /\ req.status = "ok"
     /\ req.resp.emotion_analysis_report # PyNone) =>
    db.diaries[req.id].emotion_analysis_report = req.resp.emotion_analysis_report

\* ------------------------------------------------------------------------
\* C29
\* ------------------------------------------------------------------------
\* what a get of the entry of the request returns now
GetNow == to_diary_response(get_by_id(db, req.id))

\* C29: the tags and images of the response of an update that supplied them
\* are those a get returns right after it: same names in the same order, same
\* URLs with the same order values.
C29_ResponseIsGet ==
  (UpdateDone /\ req.status = "ok") =>
    /\ req.payload.tags.given => req.resp.tags = GetNow.tags
    /\ req.payload.image_urls.given => req.resp.image_urls = GetNow.image_urls

\* ------------------------------------------------------------------------
\* C30
\* ------------------------------------------------------------------------
\* the tag names of entry d in the tables t
NamesOn(t, d) == {t.tagRows[i] : i \in t.diaryTags[d]}

\* C30: add_tags_to_diary of an existing entry completes and leaves the old
\* tags united with the trimmed new names; remove_tags_from_diary of an
\* existing entry completes and leaves the old tags minus the removed names,
\* also when no tag is left.
C30_AddRemove ==
  /\ (req.op = "add_tags" /\ req.pc = "done" /\ req.status # "not_found") =>
       /\ req.status = "ok"
       /\ NamesOn(db, req.id) =
            NamesOn(req.before, req.id) \cup ExpectedTagNames(req.payload)
  /\ (req.op = "remove_tags" /\ req.pc = "done" /\ req.status # "not_found") =>
       /\ req.status = "ok"
       /\ NamesOn(db, req.id) = NamesOn(req.before, req.id) \ Range(req.payload)

====
